---- MODULE Spec2Model ----
(***************************************************************************)
(* Python App Launcher (src/main.py, src/icon_generator.py): the registry  *)
(* of saved applications, the files generated for them and the handlers    *)
(* that change both.                                                       *)
(*                                                                         *)
(* A Python str is a sequence of one-character strings, so that strip(),   *)
(* lower(), replace(), dirname() and string concatenation are computed.    *)
(* The printable ASCII characters other than the grave accent, the tab,    *)
(* the line feed, the form feed and the carriage return stand for          *)
(* themselves; every other character stands as its code point ("U+000B",   *)
(* "U+0060", "U+00C9") and counts as one character.                        *)
(* A Python dict is a function whose DOMAIN is the set of keys present.    *)
(***************************************************************************)
EXTENDS Integers, Sequences, FiniteSets, TLC

VARIABLES
    saved_apps,   \* self.saved_apps: the in-memory registry, a sequence of dicts
    saved_kind,   \* the Python type of self.saved_apps: "list", or "str" / "dict" when
                  \* apps.json held "" or {}; saved_apps is then empty
    apps_file,    \* the content of ~/.python_app_launcher/apps.json
    files,        \* generated files on disk: path -> content
    clock,        \* the time: what datetime.now() returns to the handler that runs next
    last,         \* the handler that ran last: its name, the app it worked on, its outcome
                  \* and how it launched a script
    jobs          \* generation pipelines running side by side (SpecGen); none in Spec

vars == <<saved_apps, saved_kind, apps_file, files, clock, last, jobs>>

\* ---------------------------------------------------------------- bounds

\* datetime.now() is read at most MaxClock times in a run
MaxClock == 4
\* the registry holds at most MaxApps descriptors
MaxApps == 2

\* ---------------------------------------------------------------- strings

\* The characters str.strip() and str.split() take for whitespace (those str.isspace() is
\* true of): tab, line feed, vertical tab, form feed, carriage return, the four separators
\* U+001C..U+001F, the space, next line, the no-break space and the spaces and separators of
\* Unicode.
Whitespace ==
    { "\t", "\n", "U+000B", "\f", "\r", "U+001C", "U+001D", "U+001E", "U+001F", " ",
      "U+0085", "U+00A0", "U+1680", "U+2000", "U+2001", "U+2002", "U+2003", "U+2004",
      "U+2005", "U+2006", "U+2007", "U+2008", "U+2009", "U+200A", "U+2028", "U+2029",
      "U+202F", "U+205F", "U+3000" }

\* The characters int() drops around a number: the same, without the separators
\* U+001C..U+001F
IntWhitespace == Whitespace \ {"U+001C", "U+001D", "U+001E", "U+001F"}

\* s without the characters of W at its start
RECURSIVE lstrip_chars(_, _)
lstrip_chars(s, W) == IF s = <<>> THEN s
                      ELSE IF Head(s) \in W THEN lstrip_chars(Tail(s), W) ELSE s

\* s without the characters of W at its end
RECURSIVE rstrip_chars(_, _)
rstrip_chars(s, W) ==
    IF s = <<>> THEN s
    ELSE IF s[Len(s)] \in W THEN rstrip_chars(SubSeq(s, 1, Len(s) - 1), W) ELSE s

\* str.strip()
strip(s) == rstrip_chars(lstrip_chars(s, Whitespace), Whitespace)

\* the text int() reads the number from
int_strip(s) == rstrip_chars(lstrip_chars(s, IntWhitespace), IntWhitespace)

\* The tables of case are written as texts of rows. A row is n fields, and a field is seven
\* characters wide: it holds one character, as the texts of the model hold it (itself, or its
\* code point), and spaces after it, or spaces alone. rows(T, n) is the rows of the text T,
\* each the n characters of its fields, an empty field read as a space.
rows(T, n) ==
    { [j \in 1..n |->
          LET f == SubSeq(T, 7 * (n * (k - 1) + j) - 6, 7 * (n * (k - 1) + j))
          IN  IF SubSeq(f, 2, 2) = " " THEN SubSeq(f, 1, 1)
              ELSE IF SubSeq(f, 7, 7) = " " THEN SubSeq(f, 1, 6)
              ELSE f] : k \in 1..(Len(T) \div (7 * n)) }

\* The rows of table hold a character and, after it, the characters it becomes.
\* convert(c, table) is what c becomes, c itself when no row holds it.
convert(c, table) ==
    IF \E r \in table : r[1] = c
    THEN SelectSeq(Tail(CHOOSE r \in table : r[1] = c), LAMBDA x : x # " ")
    ELSE <<c>>

\* the characters of ASCII that str.lower() changes, each with what it becomes
AsciiLower ==
    rows("A      a      B      b      C      c      D      d      E      e      F      f      G      g      H      h      I      i      J      j      K      k      L      l      M      m      N      n      O      o      P      p      Q      q      R      r      S      s      T      t      U      u      V      v      W      w      X      x      Y      y      Z      z      ", 2)

\* The characters outside ASCII that str.lower() changes (Unicode 14.0, as Python 3.11 holds
\* it), each with what it becomes when it stands alone: the capital letters of the other
\* scripts, and U+0130, which becomes two characters
ToLower ==
    rows("U+00C0 U+00E0        U+00C1 U+00E1        U+00C2 U+00E2        U+00C3 U+00E3        U+00C4 U+00E4        U+00C5 U+00E5        U+00C6 U+00E6        U+00C7 U+00E7        U+00C8 U+00E8        U+00C9 U+00E9        U+00CA U+00EA        U+00CB U+00EB        U+00CC U+00EC        U+00CD U+00ED        U+00CE U+00EE        U+00CF U+00EF        U+00D0 U+00F0        U+00D1 U+00F1        U+00D2 U+00F2        U+00D3 U+00F3        U+00D4 U+00F4        U+00D5 U+00F5        U+00D6 U+00F6        U+00D8 U+00F8        U+00D9 U+00F9        U+00DA U+00FA        U+00DB U+00FB        U+00DC U+00FC        U+00DD U+00FD        U+00DE U+00FE        U+0100 U+0101        U+0102 U+0103        U+0104 U+0105        U+0106 U+0107        U+0108 U+0109        U+010A U+010B        U+010C U+010D        U+010E U+010F        U+0110 U+0111        U+0112 U+0113        U+0114 U+0115        U+0116 U+0117        U+0118 U+0119        U+011A U+011B        U+011C U+011D        U+011E U+011F        U+0120 U+0121        U+0122 U+0123        U+0124 U+0125        U+0126 U+0127        U+0128 U+0129        U+012A U+012B        U+012C U+012D        U+012E U+012F        U+0130 i      U+0307 U+0132 U+0133        U+0134 U+0135        U+0136 U+0137        U+0139 U+013A        U+013B U+013C        U+013D U+013E        U+013F U+0140        U+0141 U+0142        U+0143 U+0144        U+0145 U+0146        U+0147 U+0148        U+014A U+014B        U+014C U+014D        U+014E U+014F        U+0150 U+0151        "
         \o "U+0152 U+0153        U+0154 U+0155        U+0156 U+0157        U+0158 U+0159        U+015A U+015B        U+015C U+015D        U+015E U+015F        U+0160 U+0161        U+0162 U+0163        U+0164 U+0165        U+0166 U+0167        U+0168 U+0169        U+016A U+016B        U+016C U+016D        U+016E U+016F        U+0170 U+0171        U+0172 U+0173        U+0174 U+0175        U+0176 U+0177        U+0178 U+00FF        U+0179 U+017A        U+017B U+017C        U+017D U+017E        U+0181 U+0253        U+0182 U+0183        U+0184 U+0185        U+0186 U+0254        U+0187 U+0188        U+0189 U+0256        U+018A U+0257        U+018B U+018C        U+018E U+01DD        U+018F U+0259        U+0190 U+025B        U+0191 U+0192        U+0193 U+0260        U+0194 U+0263        U+0196 U+0269        U+0197 U+0268        U+0198 U+0199        U+019C U+026F        U+019D U+0272        U+019F U+0275        U+01A0 U+01A1        U+01A2 U+01A3        U+01A4 U+01A5        U+01A6 U+0280        U+01A7 U+01A8        U+01A9 U+0283        U+01AC U+01AD        U+01AE U+0288        U+01AF U+01B0        U+01B1 U+028A        U+01B2 U+028B        U+01B3 U+01B4        U+01B5 U+01B6        U+01B7 U+0292        U+01B8 U+01B9        U+01BC U+01BD        U+01C4 U+01C6        U+01C5 U+01C6        U+01C7 U+01C9        U+01C8 U+01C9        U+01CA U+01CC        U+01CB U+01CC        U+01CD U+01CE        U+01CF U+01D0        U+01D1 U+01D2        U+01D3 U+01D4        U+01D5 U+01D6        "
         \o "U+01D7 U+01D8        U+01D9 U+01DA        U+01DB U+01DC        U+01DE U+01DF        U+01E0 U+01E1        U+01E2 U+01E3        U+01E4 U+01E5        U+01E6 U+01E7        U+01E8 U+01E9        U+01EA U+01EB        U+01EC U+01ED        U+01EE U+01EF        U+01F1 U+01F3        U+01F2 U+01F3        U+01F4 U+01F5        U+01F6 U+0195        U+01F7 U+01BF        U+01F8 U+01F9        U+01FA U+01FB        U+01FC U+01FD        U+01FE U+01FF        U+0200 U+0201        U+0202 U+0203        U+0204 U+0205        U+0206 U+0207        U+0208 U+0209        U+020A U+020B        U+020C U+020D        U+020E U+020F        U+0210 U+0211        U+0212 U+0213        U+0214 U+0215        U+0216 U+0217        U+0218 U+0219        U+021A U+021B        U+021C U+021D        U+021E U+021F        U+0220 U+019E        U+0222 U+0223        U+0224 U+0225        U+0226 U+0227        U+0228 U+0229        U+022A U+022B        U+022C U+022D        U+022E U+022F        U+0230 U+0231        U+0232 U+0233        U+023A U+2C65        U+023B U+023C        U+023D U+019A        U+023E U+2C66        U+0241 U+0242        U+0243 U+0180        U+0244 U+0289        U+0245 U+028C        U+0246 U+0247        U+0248 U+0249        U+024A U+024B        U+024C U+024D        U+024E U+024F        U+0370 U+0371        U+0372 U+0373        U+0376 U+0377        U+037F U+03F3        U+0386 U+03AC        U+0388 U+03AD        U+0389 U+03AE        U+038A U+03AF        U+038C U+03CC        U+038E U+03CD        "
         \o "U+038F U+03CE        U+0391 U+03B1        U+0392 U+03B2        U+0393 U+03B3        U+0394 U+03B4        U+0395 U+03B5        U+0396 U+03B6        U+0397 U+03B7        U+0398 U+03B8        U+0399 U+03B9        U+039A U+03BA        U+039B U+03BB        U+039C U+03BC        U+039D U+03BD        U+039E U+03BE        U+039F U+03BF        U+03A0 U+03C0        U+03A1 U+03C1        U+03A3 U+03C3        U+03A4 U+03C4        U+03A5 U+03C5        U+03A6 U+03C6        U+03A7 U+03C7        U+03A8 U+03C8        U+03A9 U+03C9        U+03AA U+03CA        U+03AB U+03CB        U+03CF U+03D7        U+03D8 U+03D9        U+03DA U+03DB        U+03DC U+03DD        U+03DE U+03DF        U+03E0 U+03E1        U+03E2 U+03E3        U+03E4 U+03E5        U+03E6 U+03E7        U+03E8 U+03E9        U+03EA U+03EB        U+03EC U+03ED        U+03EE U+03EF        U+03F4 U+03B8        U+03F7 U+03F8        U+03F9 U+03F2        U+03FA U+03FB        U+03FD U+037B        U+03FE U+037C        U+03FF U+037D        U+0400 U+0450        U+0401 U+0451        U+0402 U+0452        U+0403 U+0453        U+0404 U+0454        U+0405 U+0455        U+0406 U+0456        U+0407 U+0457        U+0408 U+0458        U+0409 U+0459        U+040A U+045A        U+040B U+045B        U+040C U+045C        U+040D U+045D        U+040E U+045E        U+040F U+045F        U+0410 U+0430        U+0411 U+0431        U+0412 U+0432        U+0413 U+0433        U+0414 U+0434        U+0415 U+0435        U+0416 U+0436        "
         \o "U+0417 U+0437        U+0418 U+0438        U+0419 U+0439        U+041A U+043A        U+041B U+043B        U+041C U+043C        U+041D U+043D        U+041E U+043E        U+041F U+043F        U+0420 U+0440        U+0421 U+0441        U+0422 U+0442        U+0423 U+0443        U+0424 U+0444        U+0425 U+0445        U+0426 U+0446        U+0427 U+0447        U+0428 U+0448        U+0429 U+0449        U+042A U+044A        U+042B U+044B        U+042C U+044C        U+042D U+044D        U+042E U+044E        U+042F U+044F        U+0460 U+0461        U+0462 U+0463        U+0464 U+0465        U+0466 U+0467        U+0468 U+0469        U+046A U+046B        U+046C U+046D        U+046E U+046F        U+0470 U+0471        U+0472 U+0473        U+0474 U+0475        U+0476 U+0477        U+0478 U+0479        U+047A U+047B        U+047C U+047D        U+047E U+047F        U+0480 U+0481        U+048A U+048B        U+048C U+048D        U+048E U+048F        U+0490 U+0491        U+0492 U+0493        U+0494 U+0495        U+0496 U+0497        U+0498 U+0499        U+049A U+049B        U+049C U+049D        U+049E U+049F        U+04A0 U+04A1        U+04A2 U+04A3        U+04A4 U+04A5        U+04A6 U+04A7        U+04A8 U+04A9        U+04AA U+04AB        U+04AC U+04AD        U+04AE U+04AF        U+04B0 U+04B1        U+04B2 U+04B3        U+04B4 U+04B5        U+04B6 U+04B7        U+04B8 U+04B9        U+04BA U+04BB        U+04BC U+04BD        U+04BE U+04BF        U+04C0 U+04CF        "
         \o "U+04C1 U+04C2        U+04C3 U+04C4        U+04C5 U+04C6        U+04C7 U+04C8        U+04C9 U+04CA        U+04CB U+04CC        U+04CD U+04CE        U+04D0 U+04D1        U+04D2 U+04D3        U+04D4 U+04D5        U+04D6 U+04D7        U+04D8 U+04D9        U+04DA U+04DB        U+04DC U+04DD        U+04DE U+04DF        U+04E0 U+04E1        U+04E2 U+04E3        U+04E4 U+04E5        U+04E6 U+04E7        U+04E8 U+04E9        U+04EA U+04EB        U+04EC U+04ED        U+04EE U+04EF        U+04F0 U+04F1        U+04F2 U+04F3        U+04F4 U+04F5        U+04F6 U+04F7        U+04F8 U+04F9        U+04FA U+04FB        U+04FC U+04FD        U+04FE U+04FF        U+0500 U+0501        U+0502 U+0503        U+0504 U+0505        U+0506 U+0507        U+0508 U+0509        U+050A U+050B        U+050C U+050D        U+050E U+050F        U+0510 U+0511        U+0512 U+0513        U+0514 U+0515        U+0516 U+0517        U+0518 U+0519        U+051A U+051B        U+051C U+051D        U+051E U+051F        U+0520 U+0521        U+0522 U+0523        U+0524 U+0525        U+0526 U+0527        U+0528 U+0529        U+052A U+052B        U+052C U+052D        U+052E U+052F        U+0531 U+0561        U+0532 U+0562        U+0533 U+0563        U+0534 U+0564        U+0535 U+0565        U+0536 U+0566        U+0537 U+0567        U+0538 U+0568        U+0539 U+0569        U+053A U+056A        U+053B U+056B        U+053C U+056C        U+053D U+056D        U+053E U+056E        U+053F U+056F        "
         \o "U+0540 U+0570        U+0541 U+0571        U+0542 U+0572        U+0543 U+0573        U+0544 U+0574        U+0545 U+0575        U+0546 U+0576        U+0547 U+0577        U+0548 U+0578        U+0549 U+0579        U+054A U+057A        U+054B U+057B        U+054C U+057C        U+054D U+057D        U+054E U+057E        U+054F U+057F        U+0550 U+0580        U+0551 U+0581        U+0552 U+0582        U+0553 U+0583        U+0554 U+0584        U+0555 U+0585        U+0556 U+0586        U+10A0 U+2D00        U+10A1 U+2D01        U+10A2 U+2D02        U+10A3 U+2D03        U+10A4 U+2D04        U+10A5 U+2D05        U+10A6 U+2D06        U+10A7 U+2D07        U+10A8 U+2D08        U+10A9 U+2D09        U+10AA U+2D0A        U+10AB U+2D0B        U+10AC U+2D0C        U+10AD U+2D0D        U+10AE U+2D0E        U+10AF U+2D0F        U+10B0 U+2D10        U+10B1 U+2D11        U+10B2 U+2D12        U+10B3 U+2D13        U+10B4 U+2D14        U+10B5 U+2D15        U+10B6 U+2D16        U+10B7 U+2D17        U+10B8 U+2D18        U+10B9 U+2D19        U+10BA U+2D1A        U+10BB U+2D1B        U+10BC U+2D1C        U+10BD U+2D1D        U+10BE U+2D1E        U+10BF U+2D1F        U+10C0 U+2D20        U+10C1 U+2D21        U+10C2 U+2D22        U+10C3 U+2D23        U+10C4 U+2D24        U+10C5 U+2D25        U+10C7 U+2D27        U+10CD U+2D2D        U+13A0 U+AB70        U+13A1 U+AB71        U+13A2 U+AB72        U+13A3 U+AB73        U+13A4 U+AB74        U+13A5 U+AB75        U+13A6 U+AB76        "
         \o "U+13A7 U+AB77        U+13A8 U+AB78        U+13A9 U+AB79        U+13AA U+AB7A        U+13AB U+AB7B        U+13AC U+AB7C        U+13AD U+AB7D        U+13AE U+AB7E        U+13AF U+AB7F        U+13B0 U+AB80        U+13B1 U+AB81        U+13B2 U+AB82        U+13B3 U+AB83        U+13B4 U+AB84        U+13B5 U+AB85        U+13B6 U+AB86        U+13B7 U+AB87        U+13B8 U+AB88        U+13B9 U+AB89        U+13BA U+AB8A        U+13BB U+AB8B        U+13BC U+AB8C        U+13BD U+AB8D        U+13BE U+AB8E        U+13BF U+AB8F        U+13C0 U+AB90        U+13C1 U+AB91        U+13C2 U+AB92        U+13C3 U+AB93        U+13C4 U+AB94        U+13C5 U+AB95        U+13C6 U+AB96        U+13C7 U+AB97        U+13C8 U+AB98        U+13C9 U+AB99        U+13CA U+AB9A        U+13CB U+AB9B        U+13CC U+AB9C        U+13CD U+AB9D        U+13CE U+AB9E        U+13CF U+AB9F        U+13D0 U+ABA0        U+13D1 U+ABA1        U+13D2 U+ABA2        U+13D3 U+ABA3        U+13D4 U+ABA4        U+13D5 U+ABA5        U+13D6 U+ABA6        U+13D7 U+ABA7        U+13D8 U+ABA8        U+13D9 U+ABA9        U+13DA U+ABAA        U+13DB U+ABAB        U+13DC U+ABAC        U+13DD U+ABAD        U+13DE U+ABAE        U+13DF U+ABAF        U+13E0 U+ABB0        U+13E1 U+ABB1        U+13E2 U+ABB2        U+13E3 U+ABB3        U+13E4 U+ABB4        U+13E5 U+ABB5        U+13E6 U+ABB6        U+13E7 U+ABB7        U+13E8 U+ABB8        U+13E9 U+ABB9        U+13EA U+ABBA        U+13EB U+ABBB        U+13EC U+ABBC        "
         \o "U+13ED U+ABBD        U+13EE U+ABBE        U+13EF U+ABBF        U+13F0 U+13F8        U+13F1 U+13F9        U+13F2 U+13FA        U+13F3 U+13FB        U+13F4 U+13FC        U+13F5 U+13FD        U+1C90 U+10D0        U+1C91 U+10D1        U+1C92 U+10D2        U+1C93 U+10D3        U+1C94 U+10D4        U+1C95 U+10D5        U+1C96 U+10D6        U+1C97 U+10D7        U+1C98 U+10D8        U+1C99 U+10D9        U+1C9A U+10DA        U+1C9B U+10DB        U+1C9C U+10DC        U+1C9D U+10DD        U+1C9E U+10DE        U+1C9F U+10DF        U+1CA0 U+10E0        U+1CA1 U+10E1        U+1CA2 U+10E2        U+1CA3 U+10E3        U+1CA4 U+10E4        U+1CA5 U+10E5        U+1CA6 U+10E6        U+1CA7 U+10E7        U+1CA8 U+10E8        U+1CA9 U+10E9        U+1CAA U+10EA        U+1CAB U+10EB        U+1CAC U+10EC        U+1CAD U+10ED        U+1CAE U+10EE        U+1CAF U+10EF        U+1CB0 U+10F0        U+1CB1 U+10F1        U+1CB2 U+10F2        U+1CB3 U+10F3        U+1CB4 U+10F4        U+1CB5 U+10F5        U+1CB6 U+10F6        U+1CB7 U+10F7        U+1CB8 U+10F8        U+1CB9 U+10F9        U+1CBA U+10FA        U+1CBD U+10FD        U+1CBE U+10FE        U+1CBF U+10FF        U+1E00 U+1E01        U+1E02 U+1E03        U+1E04 U+1E05        U+1E06 U+1E07        U+1E08 U+1E09        U+1E0A U+1E0B        U+1E0C U+1E0D        U+1E0E U+1E0F        U+1E10 U+1E11        U+1E12 U+1E13        U+1E14 U+1E15        U+1E16 U+1E17        U+1E18 U+1E19        U+1E1A U+1E1B        U+1E1C U+1E1D        "
         \o "U+1E1E U+1E1F        U+1E20 U+1E21        U+1E22 U+1E23        U+1E24 U+1E25        U+1E26 U+1E27        U+1E28 U+1E29        U+1E2A U+1E2B        U+1E2C U+1E2D        U+1E2E U+1E2F        U+1E30 U+1E31        U+1E32 U+1E33        U+1E34 U+1E35        U+1E36 U+1E37        U+1E38 U+1E39        U+1E3A U+1E3B        U+1E3C U+1E3D        U+1E3E U+1E3F        U+1E40 U+1E41        U+1E42 U+1E43        U+1E44 U+1E45        U+1E46 U+1E47        U+1E48 U+1E49        U+1E4A U+1E4B        U+1E4C U+1E4D        U+1E4E U+1E4F        U+1E50 U+1E51        U+1E52 U+1E53        U+1E54 U+1E55        U+1E56 U+1E57        U+1E58 U+1E59        U+1E5A U+1E5B        U+1E5C U+1E5D        U+1E5E U+1E5F        U+1E60 U+1E61        U+1E62 U+1E63        U+1E64 U+1E65        U+1E66 U+1E67        U+1E68 U+1E69        U+1E6A U+1E6B        U+1E6C U+1E6D        U+1E6E U+1E6F        U+1E70 U+1E71        U+1E72 U+1E73        U+1E74 U+1E75        U+1E76 U+1E77        U+1E78 U+1E79        U+1E7A U+1E7B        U+1E7C U+1E7D        U+1E7E U+1E7F        U+1E80 U+1E81        U+1E82 U+1E83        U+1E84 U+1E85        U+1E86 U+1E87        U+1E88 U+1E89        U+1E8A U+1E8B        U+1E8C U+1E8D        U+1E8E U+1E8F        U+1E90 U+1E91        U+1E92 U+1E93        U+1E94 U+1E95        U+1E9E U+00DF        U+1EA0 U+1EA1        U+1EA2 U+1EA3        U+1EA4 U+1EA5        U+1EA6 U+1EA7        U+1EA8 U+1EA9        U+1EAA U+1EAB        U+1EAC U+1EAD        U+1EAE U+1EAF        U+1EB0 U+1EB1        "
         \o "U+1EB2 U+1EB3        U+1EB4 U+1EB5        U+1EB6 U+1EB7        U+1EB8 U+1EB9        U+1EBA U+1EBB        U+1EBC U+1EBD        U+1EBE U+1EBF        U+1EC0 U+1EC1        U+1EC2 U+1EC3        U+1EC4 U+1EC5        U+1EC6 U+1EC7        U+1EC8 U+1EC9        U+1ECA U+1ECB        U+1ECC U+1ECD        U+1ECE U+1ECF        U+1ED0 U+1ED1        U+1ED2 U+1ED3        U+1ED4 U+1ED5        U+1ED6 U+1ED7        U+1ED8 U+1ED9        U+1EDA U+1EDB        U+1EDC U+1EDD        U+1EDE U+1EDF        U+1EE0 U+1EE1        U+1EE2 U+1EE3        U+1EE4 U+1EE5        U+1EE6 U+1EE7        U+1EE8 U+1EE9        U+1EEA U+1EEB        U+1EEC U+1EED        U+1EEE U+1EEF        U+1EF0 U+1EF1        U+1EF2 U+1EF3        U+1EF4 U+1EF5        U+1EF6 U+1EF7        U+1EF8 U+1EF9        U+1EFA U+1EFB        U+1EFC U+1EFD        U+1EFE U+1EFF        U+1F08 U+1F00        U+1F09 U+1F01        U+1F0A U+1F02        U+1F0B U+1F03        U+1F0C U+1F04        U+1F0D U+1F05        U+1F0E U+1F06        U+1F0F U+1F07        U+1F18 U+1F10        U+1F19 U+1F11        U+1F1A U+1F12        U+1F1B U+1F13        U+1F1C U+1F14        U+1F1D U+1F15        U+1F28 U+1F20        U+1F29 U+1F21        U+1F2A U+1F22        U+1F2B U+1F23        U+1F2C U+1F24        U+1F2D U+1F25        U+1F2E U+1F26        U+1F2F U+1F27        U+1F38 U+1F30        U+1F39 U+1F31        U+1F3A U+1F32        U+1F3B U+1F33        U+1F3C U+1F34        U+1F3D U+1F35        U+1F3E U+1F36        U+1F3F U+1F37        U+1F48 U+1F40        "
         \o "U+1F49 U+1F41        U+1F4A U+1F42        U+1F4B U+1F43        U+1F4C U+1F44        U+1F4D U+1F45        U+1F59 U+1F51        U+1F5B U+1F53        U+1F5D U+1F55        U+1F5F U+1F57        U+1F68 U+1F60        U+1F69 U+1F61        U+1F6A U+1F62        U+1F6B U+1F63        U+1F6C U+1F64        U+1F6D U+1F65        U+1F6E U+1F66        U+1F6F U+1F67        U+1F88 U+1F80        U+1F89 U+1F81        U+1F8A U+1F82        U+1F8B U+1F83        U+1F8C U+1F84        U+1F8D U+1F85        U+1F8E U+1F86        U+1F8F U+1F87        U+1F98 U+1F90        U+1F99 U+1F91        U+1F9A U+1F92        U+1F9B U+1F93        U+1F9C U+1F94        U+1F9D U+1F95        U+1F9E U+1F96        U+1F9F U+1F97        U+1FA8 U+1FA0        U+1FA9 U+1FA1        U+1FAA U+1FA2        U+1FAB U+1FA3        U+1FAC U+1FA4        U+1FAD U+1FA5        U+1FAE U+1FA6        U+1FAF U+1FA7        U+1FB8 U+1FB0        U+1FB9 U+1FB1        U+1FBA U+1F70        U+1FBB U+1F71        U+1FBC U+1FB3        U+1FC8 U+1F72        U+1FC9 U+1F73        U+1FCA U+1F74        U+1FCB U+1F75        U+1FCC U+1FC3        U+1FD8 U+1FD0        U+1FD9 U+1FD1        U+1FDA U+1F76        U+1FDB U+1F77        U+1FE8 U+1FE0        U+1FE9 U+1FE1        U+1FEA U+1F7A        U+1FEB U+1F7B        U+1FEC U+1FE5        U+1FF8 U+1F78        U+1FF9 U+1F79        U+1FFA U+1F7C        U+1FFB U+1F7D        U+1FFC U+1FF3        U+2126 U+03C9        U+212A k             U+212B U+00E5        U+2132 U+214E        U+2160 U+2170        "
         \o "U+2161 U+2171        U+2162 U+2172        U+2163 U+2173        U+2164 U+2174        U+2165 U+2175        U+2166 U+2176        U+2167 U+2177        U+2168 U+2178        U+2169 U+2179        U+216A U+217A        U+216B U+217B        U+216C U+217C        U+216D U+217D        U+216E U+217E        U+216F U+217F        U+2183 U+2184        U+24B6 U+24D0        U+24B7 U+24D1        U+24B8 U+24D2        U+24B9 U+24D3        U+24BA U+24D4        U+24BB U+24D5        U+24BC U+24D6        U+24BD U+24D7        U+24BE U+24D8        U+24BF U+24D9        U+24C0 U+24DA        U+24C1 U+24DB        U+24C2 U+24DC        U+24C3 U+24DD        U+24C4 U+24DE        U+24C5 U+24DF        U+24C6 U+24E0        U+24C7 U+24E1        U+24C8 U+24E2        U+24C9 U+24E3        U+24CA U+24E4        U+24CB U+24E5        U+24CC U+24E6        U+24CD U+24E7        U+24CE U+24E8        U+24CF U+24E9        U+2C00 U+2C30        U+2C01 U+2C31        U+2C02 U+2C32        U+2C03 U+2C33        U+2C04 U+2C34        U+2C05 U+2C35        U+2C06 U+2C36        U+2C07 U+2C37        U+2C08 U+2C38        U+2C09 U+2C39        U+2C0A U+2C3A        U+2C0B U+2C3B        U+2C0C U+2C3C        U+2C0D U+2C3D        U+2C0E U+2C3E        U+2C0F U+2C3F        U+2C10 U+2C40        U+2C11 U+2C41        U+2C12 U+2C42        U+2C13 U+2C43        U+2C14 U+2C44        U+2C15 U+2C45        U+2C16 U+2C46        U+2C17 U+2C47        U+2C18 U+2C48        U+2C19 U+2C49        U+2C1A U+2C4A        U+2C1B U+2C4B        "
         \o "U+2C1C U+2C4C        U+2C1D U+2C4D        U+2C1E U+2C4E        U+2C1F U+2C4F        U+2C20 U+2C50        U+2C21 U+2C51        U+2C22 U+2C52        U+2C23 U+2C53        U+2C24 U+2C54        U+2C25 U+2C55        U+2C26 U+2C56        U+2C27 U+2C57        U+2C28 U+2C58        U+2C29 U+2C59        U+2C2A U+2C5A        U+2C2B U+2C5B        U+2C2C U+2C5C        U+2C2D U+2C5D        U+2C2E U+2C5E        U+2C2F U+2C5F        U+2C60 U+2C61        U+2C62 U+026B        U+2C63 U+1D7D        U+2C64 U+027D        U+2C67 U+2C68        U+2C69 U+2C6A        U+2C6B U+2C6C        U+2C6D U+0251        U+2C6E U+0271        U+2C6F U+0250        U+2C70 U+0252        U+2C72 U+2C73        U+2C75 U+2C76        U+2C7E U+023F        U+2C7F U+0240        U+2C80 U+2C81        U+2C82 U+2C83        U+2C84 U+2C85        U+2C86 U+2C87        U+2C88 U+2C89        U+2C8A U+2C8B        U+2C8C U+2C8D        U+2C8E U+2C8F        U+2C90 U+2C91        U+2C92 U+2C93        U+2C94 U+2C95        U+2C96 U+2C97        U+2C98 U+2C99        U+2C9A U+2C9B        U+2C9C U+2C9D        U+2C9E U+2C9F        U+2CA0 U+2CA1        U+2CA2 U+2CA3        U+2CA4 U+2CA5        U+2CA6 U+2CA7        U+2CA8 U+2CA9        U+2CAA U+2CAB        U+2CAC U+2CAD        U+2CAE U+2CAF        U+2CB0 U+2CB1        U+2CB2 U+2CB3        U+2CB4 U+2CB5        U+2CB6 U+2CB7        U+2CB8 U+2CB9        U+2CBA U+2CBB        U+2CBC U+2CBD        U+2CBE U+2CBF        U+2CC0 U+2CC1        U+2CC2 U+2CC3        U+2CC4 U+2CC5        "
         \o "U+2CC6 U+2CC7        U+2CC8 U+2CC9        U+2CCA U+2CCB        U+2CCC U+2CCD        U+2CCE U+2CCF        U+2CD0 U+2CD1        U+2CD2 U+2CD3        U+2CD4 U+2CD5        U+2CD6 U+2CD7        U+2CD8 U+2CD9        U+2CDA U+2CDB        U+2CDC U+2CDD        U+2CDE U+2CDF        U+2CE0 U+2CE1        U+2CE2 U+2CE3        U+2CEB U+2CEC        U+2CED U+2CEE        U+2CF2 U+2CF3        U+A640 U+A641        U+A642 U+A643        U+A644 U+A645        U+A646 U+A647        U+A648 U+A649        U+A64A U+A64B        U+A64C U+A64D        U+A64E U+A64F        U+A650 U+A651        U+A652 U+A653        U+A654 U+A655        U+A656 U+A657        U+A658 U+A659        U+A65A U+A65B        U+A65C U+A65D        U+A65E U+A65F        U+A660 U+A661        U+A662 U+A663        U+A664 U+A665        U+A666 U+A667        U+A668 U+A669        U+A66A U+A66B        U+A66C U+A66D        U+A680 U+A681        U+A682 U+A683        U+A684 U+A685        U+A686 U+A687        U+A688 U+A689        U+A68A U+A68B        U+A68C U+A68D        U+A68E U+A68F        U+A690 U+A691        U+A692 U+A693        U+A694 U+A695        U+A696 U+A697        U+A698 U+A699        U+A69A U+A69B        U+A722 U+A723        U+A724 U+A725        U+A726 U+A727        U+A728 U+A729        U+A72A U+A72B        U+A72C U+A72D        U+A72E U+A72F        U+A732 U+A733        U+A734 U+A735        U+A736 U+A737        U+A738 U+A739        U+A73A U+A73B        U+A73C U+A73D        U+A73E U+A73F        U+A740 U+A741        "
         \o "U+A742 U+A743        U+A744 U+A745        U+A746 U+A747        U+A748 U+A749        U+A74A U+A74B        U+A74C U+A74D        U+A74E U+A74F        U+A750 U+A751        U+A752 U+A753        U+A754 U+A755        U+A756 U+A757        U+A758 U+A759        U+A75A U+A75B        U+A75C U+A75D        U+A75E U+A75F        U+A760 U+A761        U+A762 U+A763        U+A764 U+A765        U+A766 U+A767        U+A768 U+A769        U+A76A U+A76B        U+A76C U+A76D        U+A76E U+A76F        U+A779 U+A77A        U+A77B U+A77C        U+A77D U+1D79        U+A77E U+A77F        U+A780 U+A781        U+A782 U+A783        U+A784 U+A785        U+A786 U+A787        U+A78B U+A78C        U+A78D U+0265        U+A790 U+A791        U+A792 U+A793        U+A796 U+A797        U+A798 U+A799        U+A79A U+A79B        U+A79C U+A79D        U+A79E U+A79F        U+A7A0 U+A7A1        U+A7A2 U+A7A3        U+A7A4 U+A7A5        U+A7A6 U+A7A7        U+A7A8 U+A7A9        U+A7AA U+0266        U+A7AB U+025C        U+A7AC U+0261        U+A7AD U+026C        U+A7AE U+026A        U+A7B0 U+029E        U+A7B1 U+0287        U+A7B2 U+029D        U+A7B3 U+AB53        U+A7B4 U+A7B5        U+A7B6 U+A7B7        U+A7B8 U+A7B9        U+A7BA U+A7BB        U+A7BC U+A7BD        U+A7BE U+A7BF        U+A7C0 U+A7C1        U+A7C2 U+A7C3        U+A7C4 U+A794        U+A7C5 U+0282        U+A7C6 U+1D8E        U+A7C7 U+A7C8        U+A7C9 U+A7CA        U+A7D0 U+A7D1        U+A7D6 U+A7D7        U+A7D8 U+A7D9        "
         \o "U+A7F5 U+A7F6        U+FF21 U+FF41        U+FF22 U+FF42        U+FF23 U+FF43        U+FF24 U+FF44        U+FF25 U+FF45        U+FF26 U+FF46        U+FF27 U+FF47        U+FF28 U+FF48        U+FF29 U+FF49        U+FF2A U+FF4A        U+FF2B U+FF4B        U+FF2C U+FF4C        U+FF2D U+FF4D        U+FF2E U+FF4E        U+FF2F U+FF4F        U+FF30 U+FF50        U+FF31 U+FF51        U+FF32 U+FF52        U+FF33 U+FF53        U+FF34 U+FF54        U+FF35 U+FF55        U+FF36 U+FF56        U+FF37 U+FF57        U+FF38 U+FF58        U+FF39 U+FF59        U+FF3A U+FF5A        U+10400U+10428       U+10401U+10429       U+10402U+1042A       U+10403U+1042B       U+10404U+1042C       U+10405U+1042D       U+10406U+1042E       U+10407U+1042F       U+10408U+10430       U+10409U+10431       U+1040AU+10432       U+1040BU+10433       U+1040CU+10434       U+1040DU+10435       U+1040EU+10436       U+1040FU+10437       U+10410U+10438       U+10411U+10439       U+10412U+1043A       U+10413U+1043B       U+10414U+1043C       U+10415U+1043D       U+10416U+1043E       U+10417U+1043F       U+10418U+10440       U+10419U+10441       U+1041AU+10442       U+1041BU+10443       U+1041CU+10444       U+1041DU+10445       U+1041EU+10446       U+1041FU+10447       U+10420U+10448       U+10421U+10449       U+10422U+1044A       U+10423U+1044B       U+10424U+1044C       U+10425U+1044D       U+10426U+1044E       U+10427U+1044F       U+104B0U+104D8       U+104B1U+104D9       U+104B2U+104DA       "
         \o "U+104B3U+104DB       U+104B4U+104DC       U+104B5U+104DD       U+104B6U+104DE       U+104B7U+104DF       U+104B8U+104E0       U+104B9U+104E1       U+104BAU+104E2       U+104BBU+104E3       U+104BCU+104E4       U+104BDU+104E5       U+104BEU+104E6       U+104BFU+104E7       U+104C0U+104E8       U+104C1U+104E9       U+104C2U+104EA       U+104C3U+104EB       U+104C4U+104EC       U+104C5U+104ED       U+104C6U+104EE       U+104C7U+104EF       U+104C8U+104F0       U+104C9U+104F1       U+104CAU+104F2       U+104CBU+104F3       U+104CCU+104F4       U+104CDU+104F5       U+104CEU+104F6       U+104CFU+104F7       U+104D0U+104F8       U+104D1U+104F9       U+104D2U+104FA       U+104D3U+104FB       U+10570U+10597       U+10571U+10598       U+10572U+10599       U+10573U+1059A       U+10574U+1059B       U+10575U+1059C       U+10576U+1059D       U+10577U+1059E       U+10578U+1059F       U+10579U+105A0       U+1057AU+105A1       U+1057CU+105A3       U+1057DU+105A4       U+1057EU+105A5       U+1057FU+105A6       U+10580U+105A7       U+10581U+105A8       U+10582U+105A9       U+10583U+105AA       U+10584U+105AB       U+10585U+105AC       U+10586U+105AD       U+10587U+105AE       U+10588U+105AF       U+10589U+105B0       U+1058AU+105B1       U+1058CU+105B3       U+1058DU+105B4       U+1058EU+105B5       U+1058FU+105B6       U+10590U+105B7       U+10591U+105B8       U+10592U+105B9       U+10594U+105BB       U+10595U+105BC       U+10C80U+10CC0       U+10C81U+10CC1       "
         \o "U+10C82U+10CC2       U+10C83U+10CC3       U+10C84U+10CC4       U+10C85U+10CC5       U+10C86U+10CC6       U+10C87U+10CC7       U+10C88U+10CC8       U+10C89U+10CC9       U+10C8AU+10CCA       U+10C8BU+10CCB       U+10C8CU+10CCC       U+10C8DU+10CCD       U+10C8EU+10CCE       U+10C8FU+10CCF       U+10C90U+10CD0       U+10C91U+10CD1       U+10C92U+10CD2       U+10C93U+10CD3       U+10C94U+10CD4       U+10C95U+10CD5       U+10C96U+10CD6       U+10C97U+10CD7       U+10C98U+10CD8       U+10C99U+10CD9       U+10C9AU+10CDA       U+10C9BU+10CDB       U+10C9CU+10CDC       U+10C9DU+10CDD       U+10C9EU+10CDE       U+10C9FU+10CDF       U+10CA0U+10CE0       U+10CA1U+10CE1       U+10CA2U+10CE2       U+10CA3U+10CE3       U+10CA4U+10CE4       U+10CA5U+10CE5       U+10CA6U+10CE6       U+10CA7U+10CE7       U+10CA8U+10CE8       U+10CA9U+10CE9       U+10CAAU+10CEA       U+10CABU+10CEB       U+10CACU+10CEC       U+10CADU+10CED       U+10CAEU+10CEE       U+10CAFU+10CEF       U+10CB0U+10CF0       U+10CB1U+10CF1       U+10CB2U+10CF2       U+118A0U+118C0       U+118A1U+118C1       U+118A2U+118C2       U+118A3U+118C3       U+118A4U+118C4       U+118A5U+118C5       U+118A6U+118C6       U+118A7U+118C7       U+118A8U+118C8       U+118A9U+118C9       U+118AAU+118CA       U+118ABU+118CB       U+118ACU+118CC       U+118ADU+118CD       U+118AEU+118CE       U+118AFU+118CF       U+118B0U+118D0       U+118B1U+118D1       U+118B2U+118D2       U+118B3U+118D3       U+118B4U+118D4       "
         \o "U+118B5U+118D5       U+118B6U+118D6       U+118B7U+118D7       U+118B8U+118D8       U+118B9U+118D9       U+118BAU+118DA       U+118BBU+118DB       U+118BCU+118DC       U+118BDU+118DD       U+118BEU+118DE       U+118BFU+118DF       U+16E40U+16E60       U+16E41U+16E61       U+16E42U+16E62       U+16E43U+16E63       U+16E44U+16E64       U+16E45U+16E65       U+16E46U+16E66       U+16E47U+16E67       U+16E48U+16E68       U+16E49U+16E69       U+16E4AU+16E6A       U+16E4BU+16E6B       U+16E4CU+16E6C       U+16E4DU+16E6D       U+16E4EU+16E6E       U+16E4FU+16E6F       U+16E50U+16E70       U+16E51U+16E71       U+16E52U+16E72       U+16E53U+16E73       U+16E54U+16E74       U+16E55U+16E75       U+16E56U+16E76       U+16E57U+16E77       U+16E58U+16E78       U+16E59U+16E79       U+16E5AU+16E7A       U+16E5BU+16E7B       U+16E5CU+16E7C       U+16E5DU+16E7D       U+16E5EU+16E7E       U+16E5FU+16E7F       U+1E900U+1E922       U+1E901U+1E923       U+1E902U+1E924       U+1E903U+1E925       U+1E904U+1E926       U+1E905U+1E927       U+1E906U+1E928       U+1E907U+1E929       U+1E908U+1E92A       U+1E909U+1E92B       U+1E90AU+1E92C       U+1E90BU+1E92D       U+1E90CU+1E92E       U+1E90DU+1E92F       U+1E90EU+1E930       U+1E90FU+1E931       U+1E910U+1E932       U+1E911U+1E933       U+1E912U+1E934       U+1E913U+1E935       U+1E914U+1E936       U+1E915U+1E937       U+1E916U+1E938       U+1E917U+1E939       U+1E918U+1E93A       U+1E919U+1E93B       U+1E91AU+1E93C       "
         \o "U+1E91BU+1E93D       U+1E91CU+1E93E       U+1E91DU+1E93F       U+1E91EU+1E940       U+1E91FU+1E941       U+1E920U+1E942       U+1E921U+1E943       ", 3)

\* The characters that str.lower() skips when it looks for the letters around a capital
\* sigma (the case-ignorable characters: apostrophe, full stop, colon, the combining marks,
\* the modifier letters and the format characters), each a row
CaseIgnorable ==
    rows("'      .      :      ^      U+0060 U+00A8 U+00AD U+00AF U+00B4 U+00B7 U+00B8 U+02B0 U+02B1 U+02B2 U+02B3 U+02B4 U+02B5 U+02B6 U+02B7 U+02B8 U+02B9 U+02BA U+02BB U+02BC U+02BD U+02BE U+02BF U+02C0 U+02C1 U+02C2 U+02C3 U+02C4 U+02C5 U+02C6 U+02C7 U+02C8 U+02C9 U+02CA U+02CB U+02CC U+02CD U+02CE U+02CF U+02D0 U+02D1 U+02D2 U+02D3 U+02D4 U+02D5 U+02D6 U+02D7 U+02D8 U+02D9 U+02DA U+02DB U+02DC U+02DD U+02DE U+02DF U+02E0 U+02E1 U+02E2 U+02E3 U+02E4 U+02E5 U+02E6 U+02E7 U+02E8 U+02E9 U+02EA "
         \o "U+02EB U+02EC U+02ED U+02EE U+02EF U+02F0 U+02F1 U+02F2 U+02F3 U+02F4 U+02F5 U+02F6 U+02F7 U+02F8 U+02F9 U+02FA U+02FB U+02FC U+02FD U+02FE U+02FF U+0300 U+0301 U+0302 U+0303 U+0304 U+0305 U+0306 U+0307 U+0308 U+0309 U+030A U+030B U+030C U+030D U+030E U+030F U+0310 U+0311 U+0312 U+0313 U+0314 U+0315 U+0316 U+0317 U+0318 U+0319 U+031A U+031B U+031C U+031D U+031E U+031F U+0320 U+0321 U+0322 U+0323 U+0324 U+0325 U+0326 U+0327 U+0328 U+0329 U+032A U+032B U+032C U+032D U+032E U+032F U+0330 "
         \o "U+0331 U+0332 U+0333 U+0334 U+0335 U+0336 U+0337 U+0338 U+0339 U+033A U+033B U+033C U+033D U+033E U+033F U+0340 U+0341 U+0342 U+0343 U+0344 U+0345 U+0346 U+0347 U+0348 U+0349 U+034A U+034B U+034C U+034D U+034E U+034F U+0350 U+0351 U+0352 U+0353 U+0354 U+0355 U+0356 U+0357 U+0358 U+0359 U+035A U+035B U+035C U+035D U+035E U+035F U+0360 U+0361 U+0362 U+0363 U+0364 U+0365 U+0366 U+0367 U+0368 U+0369 U+036A U+036B U+036C U+036D U+036E U+036F U+0374 U+0375 U+037A U+0384 U+0385 U+0387 U+0483 "
         \o "U+0484 U+0485 U+0486 U+0487 U+0488 U+0489 U+0559 U+055F U+0591 U+0592 U+0593 U+0594 U+0595 U+0596 U+0597 U+0598 U+0599 U+059A U+059B U+059C U+059D U+059E U+059F U+05A0 U+05A1 U+05A2 U+05A3 U+05A4 U+05A5 U+05A6 U+05A7 U+05A8 U+05A9 U+05AA U+05AB U+05AC U+05AD U+05AE U+05AF U+05B0 U+05B1 U+05B2 U+05B3 U+05B4 U+05B5 U+05B6 U+05B7 U+05B8 U+05B9 U+05BA U+05BB U+05BC U+05BD U+05BF U+05C1 U+05C2 U+05C4 U+05C5 U+05C7 U+05F4 U+0600 U+0601 U+0602 U+0603 U+0604 U+0605 U+0610 U+0611 U+0612 U+0613 "
         \o "U+0614 U+0615 U+0616 U+0617 U+0618 U+0619 U+061A U+061C U+0640 U+064B U+064C U+064D U+064E U+064F U+0650 U+0651 U+0652 U+0653 U+0654 U+0655 U+0656 U+0657 U+0658 U+0659 U+065A U+065B U+065C U+065D U+065E U+065F U+0670 U+06D6 U+06D7 U+06D8 U+06D9 U+06DA U+06DB U+06DC U+06DD U+06DF U+06E0 U+06E1 U+06E2 U+06E3 U+06E4 U+06E5 U+06E6 U+06E7 U+06E8 U+06EA U+06EB U+06EC U+06ED U+070F U+0711 U+0730 U+0731 U+0732 U+0733 U+0734 U+0735 U+0736 U+0737 U+0738 U+0739 U+073A U+073B U+073C U+073D U+073E "
         \o "U+073F U+0740 U+0741 U+0742 U+0743 U+0744 U+0745 U+0746 U+0747 U+0748 U+0749 U+074A U+07A6 U+07A7 U+07A8 U+07A9 U+07AA U+07AB U+07AC U+07AD U+07AE U+07AF U+07B0 U+07EB U+07EC U+07ED U+07EE U+07EF U+07F0 U+07F1 U+07F2 U+07F3 U+07F4 U+07F5 U+07FA U+07FD U+0816 U+0817 U+0818 U+0819 U+081A U+081B U+081C U+081D U+081E U+081F U+0820 U+0821 U+0822 U+0823 U+0824 U+0825 U+0826 U+0827 U+0828 U+0829 U+082A U+082B U+082C U+082D U+0859 U+085A U+085B U+0888 U+0890 U+0891 U+0898 U+0899 U+089A U+089B "
         \o "U+089C U+089D U+089E U+089F U+08C9 U+08CA U+08CB U+08CC U+08CD U+08CE U+08CF U+08D0 U+08D1 U+08D2 U+08D3 U+08D4 U+08D5 U+08D6 U+08D7 U+08D8 U+08D9 U+08DA U+08DB U+08DC U+08DD U+08DE U+08DF U+08E0 U+08E1 U+08E2 U+08E3 U+08E4 U+08E5 U+08E6 U+08E7 U+08E8 U+08E9 U+08EA U+08EB U+08EC U+08ED U+08EE U+08EF U+08F0 U+08F1 U+08F2 U+08F3 U+08F4 U+08F5 U+08F6 U+08F7 U+08F8 U+08F9 U+08FA U+08FB U+08FC U+08FD U+08FE U+08FF U+0900 U+0901 U+0902 U+093A U+093C U+0941 U+0942 U+0943 U+0944 U+0945 U+0946 "
         \o "U+0947 U+0948 U+094D U+0951 U+0952 U+0953 U+0954 U+0955 U+0956 U+0957 U+0962 U+0963 U+0971 U+0981 U+09BC U+09C1 U+09C2 U+09C3 U+09C4 U+09CD U+09E2 U+09E3 U+09FE U+0A01 U+0A02 U+0A3C U+0A41 U+0A42 U+0A47 U+0A48 U+0A4B U+0A4C U+0A4D U+0A51 U+0A70 U+0A71 U+0A75 U+0A81 U+0A82 U+0ABC U+0AC1 U+0AC2 U+0AC3 U+0AC4 U+0AC5 U+0AC7 U+0AC8 U+0ACD U+0AE2 U+0AE3 U+0AFA U+0AFB U+0AFC U+0AFD U+0AFE U+0AFF U+0B01 U+0B3C U+0B3F U+0B41 U+0B42 U+0B43 U+0B44 U+0B4D U+0B55 U+0B56 U+0B62 U+0B63 U+0B82 U+0BC0 "
         \o "U+0BCD U+0C00 U+0C04 U+0C3C U+0C3E U+0C3F U+0C40 U+0C46 U+0C47 U+0C48 U+0C4A U+0C4B U+0C4C U+0C4D U+0C55 U+0C56 U+0C62 U+0C63 U+0C81 U+0CBC U+0CBF U+0CC6 U+0CCC U+0CCD U+0CE2 U+0CE3 U+0D00 U+0D01 U+0D3B U+0D3C U+0D41 U+0D42 U+0D43 U+0D44 U+0D4D U+0D62 U+0D63 U+0D81 U+0DCA U+0DD2 U+0DD3 U+0DD4 U+0DD6 U+0E31 U+0E34 U+0E35 U+0E36 U+0E37 U+0E38 U+0E39 U+0E3A U+0E46 U+0E47 U+0E48 U+0E49 U+0E4A U+0E4B U+0E4C U+0E4D U+0E4E U+0EB1 U+0EB4 U+0EB5 U+0EB6 U+0EB7 U+0EB8 U+0EB9 U+0EBA U+0EBB U+0EBC "
         \o "U+0EC6 U+0EC8 U+0EC9 U+0ECA U+0ECB U+0ECC U+0ECD U+0F18 U+0F19 U+0F35 U+0F37 U+0F39 U+0F71 U+0F72 U+0F73 U+0F74 U+0F75 U+0F76 U+0F77 U+0F78 U+0F79 U+0F7A U+0F7B U+0F7C U+0F7D U+0F7E U+0F80 U+0F81 U+0F82 U+0F83 U+0F84 U+0F86 U+0F87 U+0F8D U+0F8E U+0F8F U+0F90 U+0F91 U+0F92 U+0F93 U+0F94 U+0F95 U+0F96 U+0F97 U+0F99 U+0F9A U+0F9B U+0F9C U+0F9D U+0F9E U+0F9F U+0FA0 U+0FA1 U+0FA2 U+0FA3 U+0FA4 U+0FA5 U+0FA6 U+0FA7 U+0FA8 U+0FA9 U+0FAA U+0FAB U+0FAC U+0FAD U+0FAE U+0FAF U+0FB0 U+0FB1 U+0FB2 "
         \o "U+0FB3 U+0FB4 U+0FB5 U+0FB6 U+0FB7 U+0FB8 U+0FB9 U+0FBA U+0FBB U+0FBC U+0FC6 U+102D U+102E U+102F U+1030 U+1032 U+1033 U+1034 U+1035 U+1036 U+1037 U+1039 U+103A U+103D U+103E U+1058 U+1059 U+105E U+105F U+1060 U+1071 U+1072 U+1073 U+1074 U+1082 U+1085 U+1086 U+108D U+109D U+10FC U+135D U+135E U+135F U+1712 U+1713 U+1714 U+1732 U+1733 U+1752 U+1753 U+1772 U+1773 U+17B4 U+17B5 U+17B7 U+17B8 U+17B9 U+17BA U+17BB U+17BC U+17BD U+17C6 U+17C9 U+17CA U+17CB U+17CC U+17CD U+17CE U+17CF U+17D0 "
         \o "U+17D1 U+17D2 U+17D3 U+17D7 U+17DD U+180B U+180C U+180D U+180E U+180F U+1843 U+1885 U+1886 U+18A9 U+1920 U+1921 U+1922 U+1927 U+1928 U+1932 U+1939 U+193A U+193B U+1A17 U+1A18 U+1A1B U+1A56 U+1A58 U+1A59 U+1A5A U+1A5B U+1A5C U+1A5D U+1A5E U+1A60 U+1A62 U+1A65 U+1A66 U+1A67 U+1A68 U+1A69 U+1A6A U+1A6B U+1A6C U+1A73 U+1A74 U+1A75 U+1A76 U+1A77 U+1A78 U+1A79 U+1A7A U+1A7B U+1A7C U+1A7F U+1AA7 U+1AB0 U+1AB1 U+1AB2 U+1AB3 U+1AB4 U+1AB5 U+1AB6 U+1AB7 U+1AB8 U+1AB9 U+1ABA U+1ABB U+1ABC U+1ABD "
         \o "U+1ABE U+1ABF U+1AC0 U+1AC1 U+1AC2 U+1AC3 U+1AC4 U+1AC5 U+1AC6 U+1AC7 U+1AC8 U+1AC9 U+1ACA U+1ACB U+1ACC U+1ACD U+1ACE U+1B00 U+1B01 U+1B02 U+1B03 U+1B34 U+1B36 U+1B37 U+1B38 U+1B39 U+1B3A U+1B3C U+1B42 U+1B6B U+1B6C U+1B6D U+1B6E U+1B6F U+1B70 U+1B71 U+1B72 U+1B73 U+1B80 U+1B81 U+1BA2 U+1BA3 U+1BA4 U+1BA5 U+1BA8 U+1BA9 U+1BAB U+1BAC U+1BAD U+1BE6 U+1BE8 U+1BE9 U+1BED U+1BEF U+1BF0 U+1BF1 U+1C2C U+1C2D U+1C2E U+1C2F U+1C30 U+1C31 U+1C32 U+1C33 U+1C36 U+1C37 U+1C78 U+1C79 U+1C7A U+1C7B "
         \o "U+1C7C U+1C7D U+1CD0 U+1CD1 U+1CD2 U+1CD4 U+1CD5 U+1CD6 U+1CD7 U+1CD8 U+1CD9 U+1CDA U+1CDB U+1CDC U+1CDD U+1CDE U+1CDF U+1CE0 U+1CE2 U+1CE3 U+1CE4 U+1CE5 U+1CE6 U+1CE7 U+1CE8 U+1CED U+1CF4 U+1CF8 U+1CF9 U+1D2C U+1D2D U+1D2E U+1D2F U+1D30 U+1D31 U+1D32 U+1D33 U+1D34 U+1D35 U+1D36 U+1D37 U+1D38 U+1D39 U+1D3A U+1D3B U+1D3C U+1D3D U+1D3E U+1D3F U+1D40 U+1D41 U+1D42 U+1D43 U+1D44 U+1D45 U+1D46 U+1D47 U+1D48 U+1D49 U+1D4A U+1D4B U+1D4C U+1D4D U+1D4E U+1D4F U+1D50 U+1D51 U+1D52 U+1D53 U+1D54 "
         \o "U+1D55 U+1D56 U+1D57 U+1D58 U+1D59 U+1D5A U+1D5B U+1D5C U+1D5D U+1D5E U+1D5F U+1D60 U+1D61 U+1D62 U+1D63 U+1D64 U+1D65 U+1D66 U+1D67 U+1D68 U+1D69 U+1D6A U+1D78 U+1D9B U+1D9C U+1D9D U+1D9E U+1D9F U+1DA0 U+1DA1 U+1DA2 U+1DA3 U+1DA4 U+1DA5 U+1DA6 U+1DA7 U+1DA8 U+1DA9 U+1DAA U+1DAB U+1DAC U+1DAD U+1DAE U+1DAF U+1DB0 U+1DB1 U+1DB2 U+1DB3 U+1DB4 U+1DB5 U+1DB6 U+1DB7 U+1DB8 U+1DB9 U+1DBA U+1DBB U+1DBC U+1DBD U+1DBE U+1DBF U+1DC0 U+1DC1 U+1DC2 U+1DC3 U+1DC4 U+1DC5 U+1DC6 U+1DC7 U+1DC8 U+1DC9 "
         \o "U+1DCA U+1DCB U+1DCC U+1DCD U+1DCE U+1DCF U+1DD0 U+1DD1 U+1DD2 U+1DD3 U+1DD4 U+1DD5 U+1DD6 U+1DD7 U+1DD8 U+1DD9 U+1DDA U+1DDB U+1DDC U+1DDD U+1DDE U+1DDF U+1DE0 U+1DE1 U+1DE2 U+1DE3 U+1DE4 U+1DE5 U+1DE6 U+1DE7 U+1DE8 U+1DE9 U+1DEA U+1DEB U+1DEC U+1DED U+1DEE U+1DEF U+1DF0 U+1DF1 U+1DF2 U+1DF3 U+1DF4 U+1DF5 U+1DF6 U+1DF7 U+1DF8 U+1DF9 U+1DFA U+1DFB U+1DFC U+1DFD U+1DFE U+1DFF U+1FBD U+1FBF U+1FC0 U+1FC1 U+1FCD U+1FCE U+1FCF U+1FDD U+1FDE U+1FDF U+1FED U+1FEE U+1FEF U+1FFD U+1FFE U+200B "
         \o "U+200C U+200D U+200E U+200F U+2018 U+2019 U+2024 U+2027 U+202A U+202B U+202C U+202D U+202E U+2060 U+2061 U+2062 U+2063 U+2064 U+2066 U+2067 U+2068 U+2069 U+206A U+206B U+206C U+206D U+206E U+206F U+2071 U+207F U+2090 U+2091 U+2092 U+2093 U+2094 U+2095 U+2096 U+2097 U+2098 U+2099 U+209A U+209B U+209C U+20D0 U+20D1 U+20D2 U+20D3 U+20D4 U+20D5 U+20D6 U+20D7 U+20D8 U+20D9 U+20DA U+20DB U+20DC U+20DD U+20DE U+20DF U+20E0 U+20E1 U+20E2 U+20E3 U+20E4 U+20E5 U+20E6 U+20E7 U+20E8 U+20E9 U+20EA "
         \o "U+20EB U+20EC U+20ED U+20EE U+20EF U+20F0 U+2C7C U+2C7D U+2CEF U+2CF0 U+2CF1 U+2D6F U+2D7F U+2DE0 U+2DE1 U+2DE2 U+2DE3 U+2DE4 U+2DE5 U+2DE6 U+2DE7 U+2DE8 U+2DE9 U+2DEA U+2DEB U+2DEC U+2DED U+2DEE U+2DEF U+2DF0 U+2DF1 U+2DF2 U+2DF3 U+2DF4 U+2DF5 U+2DF6 U+2DF7 U+2DF8 U+2DF9 U+2DFA U+2DFB U+2DFC U+2DFD U+2DFE U+2DFF U+2E2F U+3005 U+302A U+302B U+302C U+302D U+3031 U+3032 U+3033 U+3034 U+3035 U+303B U+3099 U+309A U+309B U+309C U+309D U+309E U+30FC U+30FD U+30FE U+A015 U+A4F8 U+A4F9 U+A4FA "
         \o "U+A4FB U+A4FC U+A4FD U+A60C U+A66F U+A670 U+A671 U+A672 U+A674 U+A675 U+A676 U+A677 U+A678 U+A679 U+A67A U+A67B U+A67C U+A67D U+A67F U+A69C U+A69D U+A69E U+A69F U+A6F0 U+A6F1 U+A700 U+A701 U+A702 U+A703 U+A704 U+A705 U+A706 U+A707 U+A708 U+A709 U+A70A U+A70B U+A70C U+A70D U+A70E U+A70F U+A710 U+A711 U+A712 U+A713 U+A714 U+A715 U+A716 U+A717 U+A718 U+A719 U+A71A U+A71B U+A71C U+A71D U+A71E U+A71F U+A720 U+A721 U+A770 U+A788 U+A789 U+A78A U+A7F2 U+A7F3 U+A7F4 U+A7F8 U+A7F9 U+A802 U+A806 "
         \o "U+A80B U+A825 U+A826 U+A82C U+A8C4 U+A8C5 U+A8E0 U+A8E1 U+A8E2 U+A8E3 U+A8E4 U+A8E5 U+A8E6 U+A8E7 U+A8E8 U+A8E9 U+A8EA U+A8EB U+A8EC U+A8ED U+A8EE U+A8EF U+A8F0 U+A8F1 U+A8FF U+A926 U+A927 U+A928 U+A929 U+A92A U+A92B U+A92C U+A92D U+A947 U+A948 U+A949 U+A94A U+A94B U+A94C U+A94D U+A94E U+A94F U+A950 U+A951 U+A980 U+A981 U+A982 U+A9B3 U+A9B6 U+A9B7 U+A9B8 U+A9B9 U+A9BC U+A9BD U+A9CF U+A9E5 U+A9E6 U+AA29 U+AA2A U+AA2B U+AA2C U+AA2D U+AA2E U+AA31 U+AA32 U+AA35 U+AA36 U+AA43 U+AA4C U+AA70 "
         \o "U+AA7C U+AAB0 U+AAB2 U+AAB3 U+AAB4 U+AAB7 U+AAB8 U+AABE U+AABF U+AAC1 U+AADD U+AAEC U+AAED U+AAF3 U+AAF4 U+AAF6 U+AB5B U+AB5C U+AB5D U+AB5E U+AB5F U+AB69 U+AB6A U+AB6B U+ABE5 U+ABE8 U+ABED U+FB1E U+FBB2 U+FBB3 U+FBB4 U+FBB5 U+FBB6 U+FBB7 U+FBB8 U+FBB9 U+FBBA U+FBBB U+FBBC U+FBBD U+FBBE U+FBBF U+FBC0 U+FBC1 U+FBC2 U+FE00 U+FE01 U+FE02 U+FE03 U+FE04 U+FE05 U+FE06 U+FE07 U+FE08 U+FE09 U+FE0A U+FE0B U+FE0C U+FE0D U+FE0E U+FE0F U+FE13 U+FE20 U+FE21 U+FE22 U+FE23 U+FE24 U+FE25 U+FE26 U+FE27 "
         \o "U+FE28 U+FE29 U+FE2A U+FE2B U+FE2C U+FE2D U+FE2E U+FE2F U+FE52 U+FE55 U+FEFF U+FF07 U+FF0E U+FF1A U+FF3E U+FF40 U+FF70 U+FF9E U+FF9F U+FFE3 U+FFF9 U+FFFA U+FFFB U+101FDU+102E0U+10376U+10377U+10378U+10379U+1037AU+10780U+10781U+10782U+10783U+10784U+10785U+10787U+10788U+10789U+1078AU+1078BU+1078CU+1078DU+1078EU+1078FU+10790U+10791U+10792U+10793U+10794U+10795U+10796U+10797U+10798U+10799U+1079AU+1079BU+1079CU+1079DU+1079EU+1079FU+107A0U+107A1U+107A2U+107A3U+107A4U+107A5U+107A6U+107A7U+107A8"
         \o "U+107A9U+107AAU+107ABU+107ACU+107ADU+107AEU+107AFU+107B0U+107B2U+107B3U+107B4U+107B5U+107B6U+107B7U+107B8U+107B9U+107BAU+10A01U+10A02U+10A03U+10A05U+10A06U+10A0CU+10A0DU+10A0EU+10A0FU+10A38U+10A39U+10A3AU+10A3FU+10AE5U+10AE6U+10D24U+10D25U+10D26U+10D27U+10EABU+10EACU+10F46U+10F47U+10F48U+10F49U+10F4AU+10F4BU+10F4CU+10F4DU+10F4EU+10F4FU+10F50U+10F82U+10F83U+10F84U+10F85U+11001U+11038U+11039U+1103AU+1103BU+1103CU+1103DU+1103EU+1103FU+11040U+11041U+11042U+11043U+11044U+11045U+11046U+11070"
         \o "U+11073U+11074U+1107FU+11080U+11081U+110B3U+110B4U+110B5U+110B6U+110B9U+110BAU+110BDU+110C2U+110CDU+11100U+11101U+11102U+11127U+11128U+11129U+1112AU+1112BU+1112DU+1112EU+1112FU+11130U+11131U+11132U+11133U+11134U+11173U+11180U+11181U+111B6U+111B7U+111B8U+111B9U+111BAU+111BBU+111BCU+111BDU+111BEU+111C9U+111CAU+111CBU+111CCU+111CFU+1122FU+11230U+11231U+11234U+11236U+11237U+1123EU+112DFU+112E3U+112E4U+112E5U+112E6U+112E7U+112E8U+112E9U+112EAU+11300U+11301U+1133BU+1133CU+11340U+11366U+11367"
         \o "U+11368U+11369U+1136AU+1136BU+1136CU+11370U+11371U+11372U+11373U+11374U+11438U+11439U+1143AU+1143BU+1143CU+1143DU+1143EU+1143FU+11442U+11443U+11444U+11446U+1145EU+114B3U+114B4U+114B5U+114B6U+114B7U+114B8U+114BAU+114BFU+114C0U+114C2U+114C3U+115B2U+115B3U+115B4U+115B5U+115BCU+115BDU+115BFU+115C0U+115DCU+115DDU+11633U+11634U+11635U+11636U+11637U+11638U+11639U+1163AU+1163DU+1163FU+11640U+116ABU+116ADU+116B0U+116B1U+116B2U+116B3U+116B4U+116B5U+116B7U+1171DU+1171EU+1171FU+11722U+11723U+11724"
         \o "U+11725U+11727U+11728U+11729U+1172AU+1172BU+1182FU+11830U+11831U+11832U+11833U+11834U+11835U+11836U+11837U+11839U+1183AU+1193BU+1193CU+1193EU+11943U+119D4U+119D5U+119D6U+119D7U+119DAU+119DBU+119E0U+11A01U+11A02U+11A03U+11A04U+11A05U+11A06U+11A07U+11A08U+11A09U+11A0AU+11A33U+11A34U+11A35U+11A36U+11A37U+11A38U+11A3BU+11A3CU+11A3DU+11A3EU+11A47U+11A51U+11A52U+11A53U+11A54U+11A55U+11A56U+11A59U+11A5AU+11A5BU+11A8AU+11A8BU+11A8CU+11A8DU+11A8EU+11A8FU+11A90U+11A91U+11A92U+11A93U+11A94U+11A95"
         \o "U+11A96U+11A98U+11A99U+11C30U+11C31U+11C32U+11C33U+11C34U+11C35U+11C36U+11C38U+11C39U+11C3AU+11C3BU+11C3CU+11C3DU+11C3FU+11C92U+11C93U+11C94U+11C95U+11C96U+11C97U+11C98U+11C99U+11C9AU+11C9BU+11C9CU+11C9DU+11C9EU+11C9FU+11CA0U+11CA1U+11CA2U+11CA3U+11CA4U+11CA5U+11CA6U+11CA7U+11CAAU+11CABU+11CACU+11CADU+11CAEU+11CAFU+11CB0U+11CB2U+11CB3U+11CB5U+11CB6U+11D31U+11D32U+11D33U+11D34U+11D35U+11D36U+11D3AU+11D3CU+11D3DU+11D3FU+11D40U+11D41U+11D42U+11D43U+11D44U+11D45U+11D47U+11D90U+11D91U+11D95"
         \o "U+11D97U+11EF3U+11EF4U+13430U+13431U+13432U+13433U+13434U+13435U+13436U+13437U+13438U+16AF0U+16AF1U+16AF2U+16AF3U+16AF4U+16B30U+16B31U+16B32U+16B33U+16B34U+16B35U+16B36U+16B40U+16B41U+16B42U+16B43U+16F4FU+16F8FU+16F90U+16F91U+16F92U+16F93U+16F94U+16F95U+16F96U+16F97U+16F98U+16F99U+16F9AU+16F9BU+16F9CU+16F9DU+16F9EU+16F9FU+16FE0U+16FE1U+16FE3U+16FE4U+1AFF0U+1AFF1U+1AFF2U+1AFF3U+1AFF5U+1AFF6U+1AFF7U+1AFF8U+1AFF9U+1AFFAU+1AFFBU+1AFFDU+1AFFEU+1BC9DU+1BC9EU+1BCA0U+1BCA1U+1BCA2U+1BCA3U+1CF00"
         \o "U+1CF01U+1CF02U+1CF03U+1CF04U+1CF05U+1CF06U+1CF07U+1CF08U+1CF09U+1CF0AU+1CF0BU+1CF0CU+1CF0DU+1CF0EU+1CF0FU+1CF10U+1CF11U+1CF12U+1CF13U+1CF14U+1CF15U+1CF16U+1CF17U+1CF18U+1CF19U+1CF1AU+1CF1BU+1CF1CU+1CF1DU+1CF1EU+1CF1FU+1CF20U+1CF21U+1CF22U+1CF23U+1CF24U+1CF25U+1CF26U+1CF27U+1CF28U+1CF29U+1CF2AU+1CF2BU+1CF2CU+1CF2DU+1CF30U+1CF31U+1CF32U+1CF33U+1CF34U+1CF35U+1CF36U+1CF37U+1CF38U+1CF39U+1CF3AU+1CF3BU+1CF3CU+1CF3DU+1CF3EU+1CF3FU+1CF40U+1CF41U+1CF42U+1CF43U+1CF44U+1CF45U+1CF46U+1D167U+1D168"
         \o "U+1D169U+1D173U+1D174U+1D175U+1D176U+1D177U+1D178U+1D179U+1D17AU+1D17BU+1D17CU+1D17DU+1D17EU+1D17FU+1D180U+1D181U+1D182U+1D185U+1D186U+1D187U+1D188U+1D189U+1D18AU+1D18BU+1D1AAU+1D1ABU+1D1ACU+1D1ADU+1D242U+1D243U+1D244U+1DA00U+1DA01U+1DA02U+1DA03U+1DA04U+1DA05U+1DA06U+1DA07U+1DA08U+1DA09U+1DA0AU+1DA0BU+1DA0CU+1DA0DU+1DA0EU+1DA0FU+1DA10U+1DA11U+1DA12U+1DA13U+1DA14U+1DA15U+1DA16U+1DA17U+1DA18U+1DA19U+1DA1AU+1DA1BU+1DA1CU+1DA1DU+1DA1EU+1DA1FU+1DA20U+1DA21U+1DA22U+1DA23U+1DA24U+1DA25U+1DA26"
         \o "U+1DA27U+1DA28U+1DA29U+1DA2AU+1DA2BU+1DA2CU+1DA2DU+1DA2EU+1DA2FU+1DA30U+1DA31U+1DA32U+1DA33U+1DA34U+1DA35U+1DA36U+1DA3BU+1DA3CU+1DA3DU+1DA3EU+1DA3FU+1DA40U+1DA41U+1DA42U+1DA43U+1DA44U+1DA45U+1DA46U+1DA47U+1DA48U+1DA49U+1DA4AU+1DA4BU+1DA4CU+1DA4DU+1DA4EU+1DA4FU+1DA50U+1DA51U+1DA52U+1DA53U+1DA54U+1DA55U+1DA56U+1DA57U+1DA58U+1DA59U+1DA5AU+1DA5BU+1DA5CU+1DA5DU+1DA5EU+1DA5FU+1DA60U+1DA61U+1DA62U+1DA63U+1DA64U+1DA65U+1DA66U+1DA67U+1DA68U+1DA69U+1DA6AU+1DA6BU+1DA6CU+1DA75U+1DA84U+1DA9BU+1DA9C"
         \o "U+1DA9DU+1DA9EU+1DA9FU+1DAA1U+1DAA2U+1DAA3U+1DAA4U+1DAA5U+1DAA6U+1DAA7U+1DAA8U+1DAA9U+1DAAAU+1DAABU+1DAACU+1DAADU+1DAAEU+1DAAFU+1E000U+1E001U+1E002U+1E003U+1E004U+1E005U+1E006U+1E008U+1E009U+1E00AU+1E00BU+1E00CU+1E00DU+1E00EU+1E00FU+1E010U+1E011U+1E012U+1E013U+1E014U+1E015U+1E016U+1E017U+1E018U+1E01BU+1E01CU+1E01DU+1E01EU+1E01FU+1E020U+1E021U+1E023U+1E024U+1E026U+1E027U+1E028U+1E029U+1E02AU+1E130U+1E131U+1E132U+1E133U+1E134U+1E135U+1E136U+1E137U+1E138U+1E139U+1E13AU+1E13BU+1E13CU+1E13D"
         \o "U+1E2AEU+1E2ECU+1E2EDU+1E2EEU+1E2EFU+1E8D0U+1E8D1U+1E8D2U+1E8D3U+1E8D4U+1E8D5U+1E8D6U+1E944U+1E945U+1E946U+1E947U+1E948U+1E949U+1E94AU+1E94BU+1F3FBU+1F3FCU+1F3FDU+1F3FEU+1F3FFU+E0001U+E0020U+E0021U+E0022U+E0023U+E0024U+E0025U+E0026U+E0027U+E0028U+E0029U+E002AU+E002BU+E002CU+E002DU+E002EU+E002FU+E0030U+E0031U+E0032U+E0033U+E0034U+E0035U+E0036U+E0037U+E0038U+E0039U+E003AU+E003BU+E003CU+E003DU+E003EU+E003FU+E0040U+E0041U+E0042U+E0043U+E0044U+E0045U+E0046U+E0047U+E0048U+E0049U+E004AU+E004B"
         \o "U+E004CU+E004DU+E004EU+E004FU+E0050U+E0051U+E0052U+E0053U+E0054U+E0055U+E0056U+E0057U+E0058U+E0059U+E005AU+E005BU+E005CU+E005DU+E005EU+E005FU+E0060U+E0061U+E0062U+E0063U+E0064U+E0065U+E0066U+E0067U+E0068U+E0069U+E006AU+E006BU+E006CU+E006DU+E006EU+E006FU+E0070U+E0071U+E0072U+E0073U+E0074U+E0075U+E0076U+E0077U+E0078U+E0079U+E007AU+E007BU+E007CU+E007DU+E007EU+E007FU+E0100U+E0101U+E0102U+E0103U+E0104U+E0105U+E0106U+E0107U+E0108U+E0109U+E010AU+E010BU+E010CU+E010DU+E010EU+E010FU+E0110U+E0111"
         \o "U+E0112U+E0113U+E0114U+E0115U+E0116U+E0117U+E0118U+E0119U+E011AU+E011BU+E011CU+E011DU+E011EU+E011FU+E0120U+E0121U+E0122U+E0123U+E0124U+E0125U+E0126U+E0127U+E0128U+E0129U+E012AU+E012BU+E012CU+E012DU+E012EU+E012FU+E0130U+E0131U+E0132U+E0133U+E0134U+E0135U+E0136U+E0137U+E0138U+E0139U+E013AU+E013BU+E013CU+E013DU+E013EU+E013FU+E0140U+E0141U+E0142U+E0143U+E0144U+E0145U+E0146U+E0147U+E0148U+E0149U+E014AU+E014BU+E014CU+E014DU+E014EU+E014FU+E0150U+E0151U+E0152U+E0153U+E0154U+E0155U+E0156U+E0157"
         \o "U+E0158U+E0159U+E015AU+E015BU+E015CU+E015DU+E015EU+E015FU+E0160U+E0161U+E0162U+E0163U+E0164U+E0165U+E0166U+E0167U+E0168U+E0169U+E016AU+E016BU+E016CU+E016DU+E016EU+E016FU+E0170U+E0171U+E0172U+E0173U+E0174U+E0175U+E0176U+E0177U+E0178U+E0179U+E017AU+E017BU+E017CU+E017DU+E017EU+E017FU+E0180U+E0181U+E0182U+E0183U+E0184U+E0185U+E0186U+E0187U+E0188U+E0189U+E018AU+E018BU+E018CU+E018DU+E018EU+E018FU+E0190U+E0191U+E0192U+E0193U+E0194U+E0195U+E0196U+E0197U+E0198U+E0199U+E019AU+E019BU+E019CU+E019D"
         \o "U+E019EU+E019FU+E01A0U+E01A1U+E01A2U+E01A3U+E01A4U+E01A5U+E01A6U+E01A7U+E01A8U+E01A9U+E01AAU+E01ABU+E01ACU+E01ADU+E01AEU+E01AFU+E01B0U+E01B1U+E01B2U+E01B3U+E01B4U+E01B5U+E01B6U+E01B7U+E01B8U+E01B9U+E01BAU+E01BBU+E01BCU+E01BDU+E01BEU+E01BFU+E01C0U+E01C1U+E01C2U+E01C3U+E01C4U+E01C5U+E01C6U+E01C7U+E01C8U+E01C9U+E01CAU+E01CBU+E01CCU+E01CDU+E01CEU+E01CFU+E01D0U+E01D1U+E01D2U+E01D3U+E01D4U+E01D5U+E01D6U+E01D7U+E01D8U+E01D9U+E01DAU+E01DBU+E01DCU+E01DDU+E01DEU+E01DFU+E01E0U+E01E1U+E01E2U+E01E3"
         \o "U+E01E4U+E01E5U+E01E6U+E01E7U+E01E8U+E01E9U+E01EAU+E01EBU+E01ECU+E01EDU+E01EEU+E01EF", 1)

\* The cased characters that are not case-ignorable, each a row: the letters that
\* str.lower() or str.upper() changes, and the letters that have a case but no other form
Cased ==
    rows("A      B      C      D      E      F      G      H      I      J      K      L      M      N      O      P      Q      R      S      T      U      V      W      X      Y      Z      a      b      c      d      e      f      g      h      i      j      k      l      m      n      o      p      q      r      s      t      u      v      w      x      y      z      U+00AA U+00B5 U+00BA U+00C0 U+00C1 U+00C2 U+00C3 U+00C4 U+00C5 U+00C6 U+00C7 U+00C8 U+00C9 U+00CA U+00CB U+00CC U+00CD U+00CE "
         \o "U+00CF U+00D0 U+00D1 U+00D2 U+00D3 U+00D4 U+00D5 U+00D6 U+00D8 U+00D9 U+00DA U+00DB U+00DC U+00DD U+00DE U+00DF U+00E0 U+00E1 U+00E2 U+00E3 U+00E4 U+00E5 U+00E6 U+00E7 U+00E8 U+00E9 U+00EA U+00EB U+00EC U+00ED U+00EE U+00EF U+00F0 U+00F1 U+00F2 U+00F3 U+00F4 U+00F5 U+00F6 U+00F8 U+00F9 U+00FA U+00FB U+00FC U+00FD U+00FE U+00FF U+0100 U+0101 U+0102 U+0103 U+0104 U+0105 U+0106 U+0107 U+0108 U+0109 U+010A U+010B U+010C U+010D U+010E U+010F U+0110 U+0111 U+0112 U+0113 U+0114 U+0115 U+0116 "
         \o "U+0117 U+0118 U+0119 U+011A U+011B U+011C U+011D U+011E U+011F U+0120 U+0121 U+0122 U+0123 U+0124 U+0125 U+0126 U+0127 U+0128 U+0129 U+012A U+012B U+012C U+012D U+012E U+012F U+0130 U+0131 U+0132 U+0133 U+0134 U+0135 U+0136 U+0137 U+0138 U+0139 U+013A U+013B U+013C U+013D U+013E U+013F U+0140 U+0141 U+0142 U+0143 U+0144 U+0145 U+0146 U+0147 U+0148 U+0149 U+014A U+014B U+014C U+014D U+014E U+014F U+0150 U+0151 U+0152 U+0153 U+0154 U+0155 U+0156 U+0157 U+0158 U+0159 U+015A U+015B U+015C "
         \o "U+015D U+015E U+015F U+0160 U+0161 U+0162 U+0163 U+0164 U+0165 U+0166 U+0167 U+0168 U+0169 U+016A U+016B U+016C U+016D U+016E U+016F U+0170 U+0171 U+0172 U+0173 U+0174 U+0175 U+0176 U+0177 U+0178 U+0179 U+017A U+017B U+017C U+017D U+017E U+017F U+0180 U+0181 U+0182 U+0183 U+0184 U+0185 U+0186 U+0187 U+0188 U+0189 U+018A U+018B U+018C U+018D U+018E U+018F U+0190 U+0191 U+0192 U+0193 U+0194 U+0195 U+0196 U+0197 U+0198 U+0199 U+019A U+019B U+019C U+019D U+019E U+019F U+01A0 U+01A1 U+01A2 "
         \o "U+01A3 U+01A4 U+01A5 U+01A6 U+01A7 U+01A8 U+01A9 U+01AA U+01AB U+01AC U+01AD U+01AE U+01AF U+01B0 U+01B1 U+01B2 U+01B3 U+01B4 U+01B5 U+01B6 U+01B7 U+01B8 U+01B9 U+01BA U+01BC U+01BD U+01BE U+01BF U+01C4 U+01C5 U+01C6 U+01C7 U+01C8 U+01C9 U+01CA U+01CB U+01CC U+01CD U+01CE U+01CF U+01D0 U+01D1 U+01D2 U+01D3 U+01D4 U+01D5 U+01D6 U+01D7 U+01D8 U+01D9 U+01DA U+01DB U+01DC U+01DD U+01DE U+01DF U+01E0 U+01E1 U+01E2 U+01E3 U+01E4 U+01E5 U+01E6 U+01E7 U+01E8 U+01E9 U+01EA U+01EB U+01EC U+01ED "
         \o "U+01EE U+01EF U+01F0 U+01F1 U+01F2 U+01F3 U+01F4 U+01F5 U+01F6 U+01F7 U+01F8 U+01F9 U+01FA U+01FB U+01FC U+01FD U+01FE U+01FF U+0200 U+0201 U+0202 U+0203 U+0204 U+0205 U+0206 U+0207 U+0208 U+0209 U+020A U+020B U+020C U+020D U+020E U+020F U+0210 U+0211 U+0212 U+0213 U+0214 U+0215 U+0216 U+0217 U+0218 U+0219 U+021A U+021B U+021C U+021D U+021E U+021F U+0220 U+0221 U+0222 U+0223 U+0224 U+0225 U+0226 U+0227 U+0228 U+0229 U+022A U+022B U+022C U+022D U+022E U+022F U+0230 U+0231 U+0232 U+0233 "
         \o "U+0234 U+0235 U+0236 U+0237 U+0238 U+0239 U+023A U+023B U+023C U+023D U+023E U+023F U+0240 U+0241 U+0242 U+0243 U+0244 U+0245 U+0246 U+0247 U+0248 U+0249 U+024A U+024B U+024C U+024D U+024E U+024F U+0250 U+0251 U+0252 U+0253 U+0254 U+0255 U+0256 U+0257 U+0258 U+0259 U+025A U+025B U+025C U+025D U+025E U+025F U+0260 U+0261 U+0262 U+0263 U+0264 U+0265 U+0266 U+0267 U+0268 U+0269 U+026A U+026B U+026C U+026D U+026E U+026F U+0270 U+0271 U+0272 U+0273 U+0274 U+0275 U+0276 U+0277 U+0278 U+0279 "
         \o "U+027A U+027B U+027C U+027D U+027E U+027F U+0280 U+0281 U+0282 U+0283 U+0284 U+0285 U+0286 U+0287 U+0288 U+0289 U+028A U+028B U+028C U+028D U+028E U+028F U+0290 U+0291 U+0292 U+0293 U+0295 U+0296 U+0297 U+0298 U+0299 U+029A U+029B U+029C U+029D U+029E U+029F U+02A0 U+02A1 U+02A2 U+02A3 U+02A4 U+02A5 U+02A6 U+02A7 U+02A8 U+02A9 U+02AA U+02AB U+02AC U+02AD U+02AE U+02AF U+0370 U+0371 U+0372 U+0373 U+0376 U+0377 U+037B U+037C U+037D U+037F U+0386 U+0388 U+0389 U+038A U+038C U+038E U+038F "
         \o "U+0390 U+0391 U+0392 U+0393 U+0394 U+0395 U+0396 U+0397 U+0398 U+0399 U+039A U+039B U+039C U+039D U+039E U+039F U+03A0 U+03A1 U+03A3 U+03A4 U+03A5 U+03A6 U+03A7 U+03A8 U+03A9 U+03AA U+03AB U+03AC U+03AD U+03AE U+03AF U+03B0 U+03B1 U+03B2 U+03B3 U+03B4 U+03B5 U+03B6 U+03B7 U+03B8 U+03B9 U+03BA U+03BB U+03BC U+03BD U+03BE U+03BF U+03C0 U+03C1 U+03C2 U+03C3 U+03C4 U+03C5 U+03C6 U+03C7 U+03C8 U+03C9 U+03CA U+03CB U+03CC U+03CD U+03CE U+03CF U+03D0 U+03D1 U+03D2 U+03D3 U+03D4 U+03D5 U+03D6 "
         \o "U+03D7 U+03D8 U+03D9 U+03DA U+03DB U+03DC U+03DD U+03DE U+03DF U+03E0 U+03E1 U+03E2 U+03E3 U+03E4 U+03E5 U+03E6 U+03E7 U+03E8 U+03E9 U+03EA U+03EB U+03EC U+03ED U+03EE U+03EF U+03F0 U+03F1 U+03F2 U+03F3 U+03F4 U+03F5 U+03F7 U+03F8 U+03F9 U+03FA U+03FB U+03FC U+03FD U+03FE U+03FF U+0400 U+0401 U+0402 U+0403 U+0404 U+0405 U+0406 U+0407 U+0408 U+0409 U+040A U+040B U+040C U+040D U+040E U+040F U+0410 U+0411 U+0412 U+0413 U+0414 U+0415 U+0416 U+0417 U+0418 U+0419 U+041A U+041B U+041C U+041D "
         \o "U+041E U+041F U+0420 U+0421 U+0422 U+0423 U+0424 U+0425 U+0426 U+0427 U+0428 U+0429 U+042A U+042B U+042C U+042D U+042E U+042F U+0430 U+0431 U+0432 U+0433 U+0434 U+0435 U+0436 U+0437 U+0438 U+0439 U+043A U+043B U+043C U+043D U+043E U+043F U+0440 U+0441 U+0442 U+0443 U+0444 U+0445 U+0446 U+0447 U+0448 U+0449 U+044A U+044B U+044C U+044D U+044E U+044F U+0450 U+0451 U+0452 U+0453 U+0454 U+0455 U+0456 U+0457 U+0458 U+0459 U+045A U+045B U+045C U+045D U+045E U+045F U+0460 U+0461 U+0462 U+0463 "
         \o "U+0464 U+0465 U+0466 U+0467 U+0468 U+0469 U+046A U+046B U+046C U+046D U+046E U+046F U+0470 U+0471 U+0472 U+0473 U+0474 U+0475 U+0476 U+0477 U+0478 U+0479 U+047A U+047B U+047C U+047D U+047E U+047F U+0480 U+0481 U+048A U+048B U+048C U+048D U+048E U+048F U+0490 U+0491 U+0492 U+0493 U+0494 U+0495 U+0496 U+0497 U+0498 U+0499 U+049A U+049B U+049C U+049D U+049E U+049F U+04A0 U+04A1 U+04A2 U+04A3 U+04A4 U+04A5 U+04A6 U+04A7 U+04A8 U+04A9 U+04AA U+04AB U+04AC U+04AD U+04AE U+04AF U+04B0 U+04B1 "
         \o "U+04B2 U+04B3 U+04B4 U+04B5 U+04B6 U+04B7 U+04B8 U+04B9 U+04BA U+04BB U+04BC U+04BD U+04BE U+04BF U+04C0 U+04C1 U+04C2 U+04C3 U+04C4 U+04C5 U+04C6 U+04C7 U+04C8 U+04C9 U+04CA U+04CB U+04CC U+04CD U+04CE U+04CF U+04D0 U+04D1 U+04D2 U+04D3 U+04D4 U+04D5 U+04D6 U+04D7 U+04D8 U+04D9 U+04DA U+04DB U+04DC U+04DD U+04DE U+04DF U+04E0 U+04E1 U+04E2 U+04E3 U+04E4 U+04E5 U+04E6 U+04E7 U+04E8 U+04E9 U+04EA U+04EB U+04EC U+04ED U+04EE U+04EF U+04F0 U+04F1 U+04F2 U+04F3 U+04F4 U+04F5 U+04F6 U+04F7 "
         \o "U+04F8 U+04F9 U+04FA U+04FB U+04FC U+04FD U+04FE U+04FF U+0500 U+0501 U+0502 U+0503 U+0504 U+0505 U+0506 U+0507 U+0508 U+0509 U+050A U+050B U+050C U+050D U+050E U+050F U+0510 U+0511 U+0512 U+0513 U+0514 U+0515 U+0516 U+0517 U+0518 U+0519 U+051A U+051B U+051C U+051D U+051E U+051F U+0520 U+0521 U+0522 U+0523 U+0524 U+0525 U+0526 U+0527 U+0528 U+0529 U+052A U+052B U+052C U+052D U+052E U+052F U+0531 U+0532 U+0533 U+0534 U+0535 U+0536 U+0537 U+0538 U+0539 U+053A U+053B U+053C U+053D U+053E "
         \o "U+053F U+0540 U+0541 U+0542 U+0543 U+0544 U+0545 U+0546 U+0547 U+0548 U+0549 U+054A U+054B U+054C U+054D U+054E U+054F U+0550 U+0551 U+0552 U+0553 U+0554 U+0555 U+0556 U+0560 U+0561 U+0562 U+0563 U+0564 U+0565 U+0566 U+0567 U+0568 U+0569 U+056A U+056B U+056C U+056D U+056E U+056F U+0570 U+0571 U+0572 U+0573 U+0574 U+0575 U+0576 U+0577 U+0578 U+0579 U+057A U+057B U+057C U+057D U+057E U+057F U+0580 U+0581 U+0582 U+0583 U+0584 U+0585 U+0586 U+0587 U+0588 U+10A0 U+10A1 U+10A2 U+10A3 U+10A4 "
         \o "U+10A5 U+10A6 U+10A7 U+10A8 U+10A9 U+10AA U+10AB U+10AC U+10AD U+10AE U+10AF U+10B0 U+10B1 U+10B2 U+10B3 U+10B4 U+10B5 U+10B6 U+10B7 U+10B8 U+10B9 U+10BA U+10BB U+10BC U+10BD U+10BE U+10BF U+10C0 U+10C1 U+10C2 U+10C3 U+10C4 U+10C5 U+10C7 U+10CD U+10D0 U+10D1 U+10D2 U+10D3 U+10D4 U+10D5 U+10D6 U+10D7 U+10D8 U+10D9 U+10DA U+10DB U+10DC U+10DD U+10DE U+10DF U+10E0 U+10E1 U+10E2 U+10E3 U+10E4 U+10E5 U+10E6 U+10E7 U+10E8 U+10E9 U+10EA U+10EB U+10EC U+10ED U+10EE U+10EF U+10F0 U+10F1 U+10F2 "
         \o "U+10F3 U+10F4 U+10F5 U+10F6 U+10F7 U+10F8 U+10F9 U+10FA U+10FD U+10FE U+10FF U+13A0 U+13A1 U+13A2 U+13A3 U+13A4 U+13A5 U+13A6 U+13A7 U+13A8 U+13A9 U+13AA U+13AB U+13AC U+13AD U+13AE U+13AF U+13B0 U+13B1 U+13B2 U+13B3 U+13B4 U+13B5 U+13B6 U+13B7 U+13B8 U+13B9 U+13BA U+13BB U+13BC U+13BD U+13BE U+13BF U+13C0 U+13C1 U+13C2 U+13C3 U+13C4 U+13C5 U+13C6 U+13C7 U+13C8 U+13C9 U+13CA U+13CB U+13CC U+13CD U+13CE U+13CF U+13D0 U+13D1 U+13D2 U+13D3 U+13D4 U+13D5 U+13D6 U+13D7 U+13D8 U+13D9 U+13DA "
         \o "U+13DB U+13DC U+13DD U+13DE U+13DF U+13E0 U+13E1 U+13E2 U+13E3 U+13E4 U+13E5 U+13E6 U+13E7 U+13E8 U+13E9 U+13EA U+13EB U+13EC U+13ED U+13EE U+13EF U+13F0 U+13F1 U+13F2 U+13F3 U+13F4 U+13F5 U+13F8 U+13F9 U+13FA U+13FB U+13FC U+13FD U+1C80 U+1C81 U+1C82 U+1C83 U+1C84 U+1C85 U+1C86 U+1C87 U+1C88 U+1C90 U+1C91 U+1C92 U+1C93 U+1C94 U+1C95 U+1C96 U+1C97 U+1C98 U+1C99 U+1C9A U+1C9B U+1C9C U+1C9D U+1C9E U+1C9F U+1CA0 U+1CA1 U+1CA2 U+1CA3 U+1CA4 U+1CA5 U+1CA6 U+1CA7 U+1CA8 U+1CA9 U+1CAA U+1CAB "
         \o "U+1CAC U+1CAD U+1CAE U+1CAF U+1CB0 U+1CB1 U+1CB2 U+1CB3 U+1CB4 U+1CB5 U+1CB6 U+1CB7 U+1CB8 U+1CB9 U+1CBA U+1CBD U+1CBE U+1CBF U+1D00 U+1D01 U+1D02 U+1D03 U+1D04 U+1D05 U+1D06 U+1D07 U+1D08 U+1D09 U+1D0A U+1D0B U+1D0C U+1D0D U+1D0E U+1D0F U+1D10 U+1D11 U+1D12 U+1D13 U+1D14 U+1D15 U+1D16 U+1D17 U+1D18 U+1D19 U+1D1A U+1D1B U+1D1C U+1D1D U+1D1E U+1D1F U+1D20 U+1D21 U+1D22 U+1D23 U+1D24 U+1D25 U+1D26 U+1D27 U+1D28 U+1D29 U+1D2A U+1D2B U+1D6B U+1D6C U+1D6D U+1D6E U+1D6F U+1D70 U+1D71 U+1D72 "
         \o "U+1D73 U+1D74 U+1D75 U+1D76 U+1D77 U+1D79 U+1D7A U+1D7B U+1D7C U+1D7D U+1D7E U+1D7F U+1D80 U+1D81 U+1D82 U+1D83 U+1D84 U+1D85 U+1D86 U+1D87 U+1D88 U+1D89 U+1D8A U+1D8B U+1D8C U+1D8D U+1D8E U+1D8F U+1D90 U+1D91 U+1D92 U+1D93 U+1D94 U+1D95 U+1D96 U+1D97 U+1D98 U+1D99 U+1D9A U+1E00 U+1E01 U+1E02 U+1E03 U+1E04 U+1E05 U+1E06 U+1E07 U+1E08 U+1E09 U+1E0A U+1E0B U+1E0C U+1E0D U+1E0E U+1E0F U+1E10 U+1E11 U+1E12 U+1E13 U+1E14 U+1E15 U+1E16 U+1E17 U+1E18 U+1E19 U+1E1A U+1E1B U+1E1C U+1E1D U+1E1E "
         \o "U+1E1F U+1E20 U+1E21 U+1E22 U+1E23 U+1E24 U+1E25 U+1E26 U+1E27 U+1E28 U+1E29 U+1E2A U+1E2B U+1E2C U+1E2D U+1E2E U+1E2F U+1E30 U+1E31 U+1E32 U+1E33 U+1E34 U+1E35 U+1E36 U+1E37 U+1E38 U+1E39 U+1E3A U+1E3B U+1E3C U+1E3D U+1E3E U+1E3F U+1E40 U+1E41 U+1E42 U+1E43 U+1E44 U+1E45 U+1E46 U+1E47 U+1E48 U+1E49 U+1E4A U+1E4B U+1E4C U+1E4D U+1E4E U+1E4F U+1E50 U+1E51 U+1E52 U+1E53 U+1E54 U+1E55 U+1E56 U+1E57 U+1E58 U+1E59 U+1E5A U+1E5B U+1E5C U+1E5D U+1E5E U+1E5F U+1E60 U+1E61 U+1E62 U+1E63 U+1E64 "
         \o "U+1E65 U+1E66 U+1E67 U+1E68 U+1E69 U+1E6A U+1E6B U+1E6C U+1E6D U+1E6E U+1E6F U+1E70 U+1E71 U+1E72 U+1E73 U+1E74 U+1E75 U+1E76 U+1E77 U+1E78 U+1E79 U+1E7A U+1E7B U+1E7C U+1E7D U+1E7E U+1E7F U+1E80 U+1E81 U+1E82 U+1E83 U+1E84 U+1E85 U+1E86 U+1E87 U+1E88 U+1E89 U+1E8A U+1E8B U+1E8C U+1E8D U+1E8E U+1E8F U+1E90 U+1E91 U+1E92 U+1E93 U+1E94 U+1E95 U+1E96 U+1E97 U+1E98 U+1E99 U+1E9A U+1E9B U+1E9C U+1E9D U+1E9E U+1E9F U+1EA0 U+1EA1 U+1EA2 U+1EA3 U+1EA4 U+1EA5 U+1EA6 U+1EA7 U+1EA8 U+1EA9 U+1EAA "
         \o "U+1EAB U+1EAC U+1EAD U+1EAE U+1EAF U+1EB0 U+1EB1 U+1EB2 U+1EB3 U+1EB4 U+1EB5 U+1EB6 U+1EB7 U+1EB8 U+1EB9 U+1EBA U+1EBB U+1EBC U+1EBD U+1EBE U+1EBF U+1EC0 U+1EC1 U+1EC2 U+1EC3 U+1EC4 U+1EC5 U+1EC6 U+1EC7 U+1EC8 U+1EC9 U+1ECA U+1ECB U+1ECC U+1ECD U+1ECE U+1ECF U+1ED0 U+1ED1 U+1ED2 U+1ED3 U+1ED4 U+1ED5 U+1ED6 U+1ED7 U+1ED8 U+1ED9 U+1EDA U+1EDB U+1EDC U+1EDD U+1EDE U+1EDF U+1EE0 U+1EE1 U+1EE2 U+1EE3 U+1EE4 U+1EE5 U+1EE6 U+1EE7 U+1EE8 U+1EE9 U+1EEA U+1EEB U+1EEC U+1EED U+1EEE U+1EEF U+1EF0 "
         \o "U+1EF1 U+1EF2 U+1EF3 U+1EF4 U+1EF5 U+1EF6 U+1EF7 U+1EF8 U+1EF9 U+1EFA U+1EFB U+1EFC U+1EFD U+1EFE U+1EFF U+1F00 U+1F01 U+1F02 U+1F03 U+1F04 U+1F05 U+1F06 U+1F07 U+1F08 U+1F09 U+1F0A U+1F0B U+1F0C U+1F0D U+1F0E U+1F0F U+1F10 U+1F11 U+1F12 U+1F13 U+1F14 U+1F15 U+1F18 U+1F19 U+1F1A U+1F1B U+1F1C U+1F1D U+1F20 U+1F21 U+1F22 U+1F23 U+1F24 U+1F25 U+1F26 U+1F27 U+1F28 U+1F29 U+1F2A U+1F2B U+1F2C U+1F2D U+1F2E U+1F2F U+1F30 U+1F31 U+1F32 U+1F33 U+1F34 U+1F35 U+1F36 U+1F37 U+1F38 U+1F39 U+1F3A "
         \o "U+1F3B U+1F3C U+1F3D U+1F3E U+1F3F U+1F40 U+1F41 U+1F42 U+1F43 U+1F44 U+1F45 U+1F48 U+1F49 U+1F4A U+1F4B U+1F4C U+1F4D U+1F50 U+1F51 U+1F52 U+1F53 U+1F54 U+1F55 U+1F56 U+1F57 U+1F59 U+1F5B U+1F5D U+1F5F U+1F60 U+1F61 U+1F62 U+1F63 U+1F64 U+1F65 U+1F66 U+1F67 U+1F68 U+1F69 U+1F6A U+1F6B U+1F6C U+1F6D U+1F6E U+1F6F U+1F70 U+1F71 U+1F72 U+1F73 U+1F74 U+1F75 U+1F76 U+1F77 U+1F78 U+1F79 U+1F7A U+1F7B U+1F7C U+1F7D U+1F80 U+1F81 U+1F82 U+1F83 U+1F84 U+1F85 U+1F86 U+1F87 U+1F88 U+1F89 U+1F8A "
         \o "U+1F8B U+1F8C U+1F8D U+1F8E U+1F8F U+1F90 U+1F91 U+1F92 U+1F93 U+1F94 U+1F95 U+1F96 U+1F97 U+1F98 U+1F99 U+1F9A U+1F9B U+1F9C U+1F9D U+1F9E U+1F9F U+1FA0 U+1FA1 U+1FA2 U+1FA3 U+1FA4 U+1FA5 U+1FA6 U+1FA7 U+1FA8 U+1FA9 U+1FAA U+1FAB U+1FAC U+1FAD U+1FAE U+1FAF U+1FB0 U+1FB1 U+1FB2 U+1FB3 U+1FB4 U+1FB6 U+1FB7 U+1FB8 U+1FB9 U+1FBA U+1FBB U+1FBC U+1FBE U+1FC2 U+1FC3 U+1FC4 U+1FC6 U+1FC7 U+1FC8 U+1FC9 U+1FCA U+1FCB U+1FCC U+1FD0 U+1FD1 U+1FD2 U+1FD3 U+1FD6 U+1FD7 U+1FD8 U+1FD9 U+1FDA U+1FDB "
         \o "U+1FE0 U+1FE1 U+1FE2 U+1FE3 U+1FE4 U+1FE5 U+1FE6 U+1FE7 U+1FE8 U+1FE9 U+1FEA U+1FEB U+1FEC U+1FF2 U+1FF3 U+1FF4 U+1FF6 U+1FF7 U+1FF8 U+1FF9 U+1FFA U+1FFB U+1FFC U+2102 U+2107 U+210A U+210B U+210C U+210D U+210E U+210F U+2110 U+2111 U+2112 U+2113 U+2115 U+2119 U+211A U+211B U+211C U+211D U+2124 U+2126 U+2128 U+212A U+212B U+212C U+212D U+212F U+2130 U+2131 U+2132 U+2133 U+2134 U+2139 U+213C U+213D U+213E U+213F U+2145 U+2146 U+2147 U+2148 U+2149 U+214E U+2160 U+2161 U+2162 U+2163 U+2164 "
         \o "U+2165 U+2166 U+2167 U+2168 U+2169 U+216A U+216B U+216C U+216D U+216E U+216F U+2170 U+2171 U+2172 U+2173 U+2174 U+2175 U+2176 U+2177 U+2178 U+2179 U+217A U+217B U+217C U+217D U+217E U+217F U+2183 U+2184 U+24B6 U+24B7 U+24B8 U+24B9 U+24BA U+24BB U+24BC U+24BD U+24BE U+24BF U+24C0 U+24C1 U+24C2 U+24C3 U+24C4 U+24C5 U+24C6 U+24C7 U+24C8 U+24C9 U+24CA U+24CB U+24CC U+24CD U+24CE U+24CF U+24D0 U+24D1 U+24D2 U+24D3 U+24D4 U+24D5 U+24D6 U+24D7 U+24D8 U+24D9 U+24DA U+24DB U+24DC U+24DD U+24DE "
         \o "U+24DF U+24E0 U+24E1 U+24E2 U+24E3 U+24E4 U+24E5 U+24E6 U+24E7 U+24E8 U+24E9 U+2C00 U+2C01 U+2C02 U+2C03 U+2C04 U+2C05 U+2C06 U+2C07 U+2C08 U+2C09 U+2C0A U+2C0B U+2C0C U+2C0D U+2C0E U+2C0F U+2C10 U+2C11 U+2C12 U+2C13 U+2C14 U+2C15 U+2C16 U+2C17 U+2C18 U+2C19 U+2C1A U+2C1B U+2C1C U+2C1D U+2C1E U+2C1F U+2C20 U+2C21 U+2C22 U+2C23 U+2C24 U+2C25 U+2C26 U+2C27 U+2C28 U+2C29 U+2C2A U+2C2B U+2C2C U+2C2D U+2C2E U+2C2F U+2C30 U+2C31 U+2C32 U+2C33 U+2C34 U+2C35 U+2C36 U+2C37 U+2C38 U+2C39 U+2C3A "
         \o "U+2C3B U+2C3C U+2C3D U+2C3E U+2C3F U+2C40 U+2C41 U+2C42 U+2C43 U+2C44 U+2C45 U+2C46 U+2C47 U+2C48 U+2C49 U+2C4A U+2C4B U+2C4C U+2C4D U+2C4E U+2C4F U+2C50 U+2C51 U+2C52 U+2C53 U+2C54 U+2C55 U+2C56 U+2C57 U+2C58 U+2C59 U+2C5A U+2C5B U+2C5C U+2C5D U+2C5E U+2C5F U+2C60 U+2C61 U+2C62 U+2C63 U+2C64 U+2C65 U+2C66 U+2C67 U+2C68 U+2C69 U+2C6A U+2C6B U+2C6C U+2C6D U+2C6E U+2C6F U+2C70 U+2C71 U+2C72 U+2C73 U+2C74 U+2C75 U+2C76 U+2C77 U+2C78 U+2C79 U+2C7A U+2C7B U+2C7E U+2C7F U+2C80 U+2C81 U+2C82 "
         \o "U+2C83 U+2C84 U+2C85 U+2C86 U+2C87 U+2C88 U+2C89 U+2C8A U+2C8B U+2C8C U+2C8D U+2C8E U+2C8F U+2C90 U+2C91 U+2C92 U+2C93 U+2C94 U+2C95 U+2C96 U+2C97 U+2C98 U+2C99 U+2C9A U+2C9B U+2C9C U+2C9D U+2C9E U+2C9F U+2CA0 U+2CA1 U+2CA2 U+2CA3 U+2CA4 U+2CA5 U+2CA6 U+2CA7 U+2CA8 U+2CA9 U+2CAA U+2CAB U+2CAC U+2CAD U+2CAE U+2CAF U+2CB0 U+2CB1 U+2CB2 U+2CB3 U+2CB4 U+2CB5 U+2CB6 U+2CB7 U+2CB8 U+2CB9 U+2CBA U+2CBB U+2CBC U+2CBD U+2CBE U+2CBF U+2CC0 U+2CC1 U+2CC2 U+2CC3 U+2CC4 U+2CC5 U+2CC6 U+2CC7 U+2CC8 "
         \o "U+2CC9 U+2CCA U+2CCB U+2CCC U+2CCD U+2CCE U+2CCF U+2CD0 U+2CD1 U+2CD2 U+2CD3 U+2CD4 U+2CD5 U+2CD6 U+2CD7 U+2CD8 U+2CD9 U+2CDA U+2CDB U+2CDC U+2CDD U+2CDE U+2CDF U+2CE0 U+2CE1 U+2CE2 U+2CE3 U+2CE4 U+2CEB U+2CEC U+2CED U+2CEE U+2CF2 U+2CF3 U+2D00 U+2D01 U+2D02 U+2D03 U+2D04 U+2D05 U+2D06 U+2D07 U+2D08 U+2D09 U+2D0A U+2D0B U+2D0C U+2D0D U+2D0E U+2D0F U+2D10 U+2D11 U+2D12 U+2D13 U+2D14 U+2D15 U+2D16 U+2D17 U+2D18 U+2D19 U+2D1A U+2D1B U+2D1C U+2D1D U+2D1E U+2D1F U+2D20 U+2D21 U+2D22 U+2D23 "
         \o "U+2D24 U+2D25 U+2D27 U+2D2D U+A640 U+A641 U+A642 U+A643 U+A644 U+A645 U+A646 U+A647 U+A648 U+A649 U+A64A U+A64B U+A64C U+A64D U+A64E U+A64F U+A650 U+A651 U+A652 U+A653 U+A654 U+A655 U+A656 U+A657 U+A658 U+A659 U+A65A U+A65B U+A65C U+A65D U+A65E U+A65F U+A660 U+A661 U+A662 U+A663 U+A664 U+A665 U+A666 U+A667 U+A668 U+A669 U+A66A U+A66B U+A66C U+A66D U+A680 U+A681 U+A682 U+A683 U+A684 U+A685 U+A686 U+A687 U+A688 U+A689 U+A68A U+A68B U+A68C U+A68D U+A68E U+A68F U+A690 U+A691 U+A692 U+A693 "
         \o "U+A694 U+A695 U+A696 U+A697 U+A698 U+A699 U+A69A U+A69B U+A722 U+A723 U+A724 U+A725 U+A726 U+A727 U+A728 U+A729 U+A72A U+A72B U+A72C U+A72D U+A72E U+A72F U+A730 U+A731 U+A732 U+A733 U+A734 U+A735 U+A736 U+A737 U+A738 U+A739 U+A73A U+A73B U+A73C U+A73D U+A73E U+A73F U+A740 U+A741 U+A742 U+A743 U+A744 U+A745 U+A746 U+A747 U+A748 U+A749 U+A74A U+A74B U+A74C U+A74D U+A74E U+A74F U+A750 U+A751 U+A752 U+A753 U+A754 U+A755 U+A756 U+A757 U+A758 U+A759 U+A75A U+A75B U+A75C U+A75D U+A75E U+A75F "
         \o "U+A760 U+A761 U+A762 U+A763 U+A764 U+A765 U+A766 U+A767 U+A768 U+A769 U+A76A U+A76B U+A76C U+A76D U+A76E U+A76F U+A771 U+A772 U+A773 U+A774 U+A775 U+A776 U+A777 U+A778 U+A779 U+A77A U+A77B U+A77C U+A77D U+A77E U+A77F U+A780 U+A781 U+A782 U+A783 U+A784 U+A785 U+A786 U+A787 U+A78B U+A78C U+A78D U+A78E U+A790 U+A791 U+A792 U+A793 U+A794 U+A795 U+A796 U+A797 U+A798 U+A799 U+A79A U+A79B U+A79C U+A79D U+A79E U+A79F U+A7A0 U+A7A1 U+A7A2 U+A7A3 U+A7A4 U+A7A5 U+A7A6 U+A7A7 U+A7A8 U+A7A9 U+A7AA "
         \o "U+A7AB U+A7AC U+A7AD U+A7AE U+A7AF U+A7B0 U+A7B1 U+A7B2 U+A7B3 U+A7B4 U+A7B5 U+A7B6 U+A7B7 U+A7B8 U+A7B9 U+A7BA U+A7BB U+A7BC U+A7BD U+A7BE U+A7BF U+A7C0 U+A7C1 U+A7C2 U+A7C3 U+A7C4 U+A7C5 U+A7C6 U+A7C7 U+A7C8 U+A7C9 U+A7CA U+A7D0 U+A7D1 U+A7D3 U+A7D5 U+A7D6 U+A7D7 U+A7D8 U+A7D9 U+A7F5 U+A7F6 U+A7FA U+AB30 U+AB31 U+AB32 U+AB33 U+AB34 U+AB35 U+AB36 U+AB37 U+AB38 U+AB39 U+AB3A U+AB3B U+AB3C U+AB3D U+AB3E U+AB3F U+AB40 U+AB41 U+AB42 U+AB43 U+AB44 U+AB45 U+AB46 U+AB47 U+AB48 U+AB49 U+AB4A "
         \o "U+AB4B U+AB4C U+AB4D U+AB4E U+AB4F U+AB50 U+AB51 U+AB52 U+AB53 U+AB54 U+AB55 U+AB56 U+AB57 U+AB58 U+AB59 U+AB5A U+AB60 U+AB61 U+AB62 U+AB63 U+AB64 U+AB65 U+AB66 U+AB67 U+AB68 U+AB70 U+AB71 U+AB72 U+AB73 U+AB74 U+AB75 U+AB76 U+AB77 U+AB78 U+AB79 U+AB7A U+AB7B U+AB7C U+AB7D U+AB7E U+AB7F U+AB80 U+AB81 U+AB82 U+AB83 U+AB84 U+AB85 U+AB86 U+AB87 U+AB88 U+AB89 U+AB8A U+AB8B U+AB8C U+AB8D U+AB8E U+AB8F U+AB90 U+AB91 U+AB92 U+AB93 U+AB94 U+AB95 U+AB96 U+AB97 U+AB98 U+AB99 U+AB9A U+AB9B U+AB9C "
         \o "U+AB9D U+AB9E U+AB9F U+ABA0 U+ABA1 U+ABA2 U+ABA3 U+ABA4 U+ABA5 U+ABA6 U+ABA7 U+ABA8 U+ABA9 U+ABAA U+ABAB U+ABAC U+ABAD U+ABAE U+ABAF U+ABB0 U+ABB1 U+ABB2 U+ABB3 U+ABB4 U+ABB5 U+ABB6 U+ABB7 U+ABB8 U+ABB9 U+ABBA U+ABBB U+ABBC U+ABBD U+ABBE U+ABBF U+FB00 U+FB01 U+FB02 U+FB03 U+FB04 U+FB05 U+FB06 U+FB13 U+FB14 U+FB15 U+FB16 U+FB17 U+FF21 U+FF22 U+FF23 U+FF24 U+FF25 U+FF26 U+FF27 U+FF28 U+FF29 U+FF2A U+FF2B U+FF2C U+FF2D U+FF2E U+FF2F U+FF30 U+FF31 U+FF32 U+FF33 U+FF34 U+FF35 U+FF36 U+FF37 "
         \o "U+FF38 U+FF39 U+FF3A U+FF41 U+FF42 U+FF43 U+FF44 U+FF45 U+FF46 U+FF47 U+FF48 U+FF49 U+FF4A U+FF4B U+FF4C U+FF4D U+FF4E U+FF4F U+FF50 U+FF51 U+FF52 U+FF53 U+FF54 U+FF55 U+FF56 U+FF57 U+FF58 U+FF59 U+FF5A U+10400U+10401U+10402U+10403U+10404U+10405U+10406U+10407U+10408U+10409U+1040AU+1040BU+1040CU+1040DU+1040EU+1040FU+10410U+10411U+10412U+10413U+10414U+10415U+10416U+10417U+10418U+10419U+1041AU+1041BU+1041CU+1041DU+1041EU+1041FU+10420U+10421U+10422U+10423U+10424U+10425U+10426U+10427U+10428"
         \o "U+10429U+1042AU+1042BU+1042CU+1042DU+1042EU+1042FU+10430U+10431U+10432U+10433U+10434U+10435U+10436U+10437U+10438U+10439U+1043AU+1043BU+1043CU+1043DU+1043EU+1043FU+10440U+10441U+10442U+10443U+10444U+10445U+10446U+10447U+10448U+10449U+1044AU+1044BU+1044CU+1044DU+1044EU+1044FU+104B0U+104B1U+104B2U+104B3U+104B4U+104B5U+104B6U+104B7U+104B8U+104B9U+104BAU+104BBU+104BCU+104BDU+104BEU+104BFU+104C0U+104C1U+104C2U+104C3U+104C4U+104C5U+104C6U+104C7U+104C8U+104C9U+104CAU+104CBU+104CCU+104CDU+104CE"
         \o "U+104CFU+104D0U+104D1U+104D2U+104D3U+104D8U+104D9U+104DAU+104DBU+104DCU+104DDU+104DEU+104DFU+104E0U+104E1U+104E2U+104E3U+104E4U+104E5U+104E6U+104E7U+104E8U+104E9U+104EAU+104EBU+104ECU+104EDU+104EEU+104EFU+104F0U+104F1U+104F2U+104F3U+104F4U+104F5U+104F6U+104F7U+104F8U+104F9U+104FAU+104FBU+10570U+10571U+10572U+10573U+10574U+10575U+10576U+10577U+10578U+10579U+1057AU+1057CU+1057DU+1057EU+1057FU+10580U+10581U+10582U+10583U+10584U+10585U+10586U+10587U+10588U+10589U+1058AU+1058CU+1058DU+1058E"
         \o "U+1058FU+10590U+10591U+10592U+10594U+10595U+10597U+10598U+10599U+1059AU+1059BU+1059CU+1059DU+1059EU+1059FU+105A0U+105A1U+105A3U+105A4U+105A5U+105A6U+105A7U+105A8U+105A9U+105AAU+105ABU+105ACU+105ADU+105AEU+105AFU+105B0U+105B1U+105B3U+105B4U+105B5U+105B6U+105B7U+105B8U+105B9U+105BBU+105BCU+10C80U+10C81U+10C82U+10C83U+10C84U+10C85U+10C86U+10C87U+10C88U+10C89U+10C8AU+10C8BU+10C8CU+10C8DU+10C8EU+10C8FU+10C90U+10C91U+10C92U+10C93U+10C94U+10C95U+10C96U+10C97U+10C98U+10C99U+10C9AU+10C9BU+10C9C"
         \o "U+10C9DU+10C9EU+10C9FU+10CA0U+10CA1U+10CA2U+10CA3U+10CA4U+10CA5U+10CA6U+10CA7U+10CA8U+10CA9U+10CAAU+10CABU+10CACU+10CADU+10CAEU+10CAFU+10CB0U+10CB1U+10CB2U+10CC0U+10CC1U+10CC2U+10CC3U+10CC4U+10CC5U+10CC6U+10CC7U+10CC8U+10CC9U+10CCAU+10CCBU+10CCCU+10CCDU+10CCEU+10CCFU+10CD0U+10CD1U+10CD2U+10CD3U+10CD4U+10CD5U+10CD6U+10CD7U+10CD8U+10CD9U+10CDAU+10CDBU+10CDCU+10CDDU+10CDEU+10CDFU+10CE0U+10CE1U+10CE2U+10CE3U+10CE4U+10CE5U+10CE6U+10CE7U+10CE8U+10CE9U+10CEAU+10CEBU+10CECU+10CEDU+10CEEU+10CEF"
         \o "U+10CF0U+10CF1U+10CF2U+118A0U+118A1U+118A2U+118A3U+118A4U+118A5U+118A6U+118A7U+118A8U+118A9U+118AAU+118ABU+118ACU+118ADU+118AEU+118AFU+118B0U+118B1U+118B2U+118B3U+118B4U+118B5U+118B6U+118B7U+118B8U+118B9U+118BAU+118BBU+118BCU+118BDU+118BEU+118BFU+118C0U+118C1U+118C2U+118C3U+118C4U+118C5U+118C6U+118C7U+118C8U+118C9U+118CAU+118CBU+118CCU+118CDU+118CEU+118CFU+118D0U+118D1U+118D2U+118D3U+118D4U+118D5U+118D6U+118D7U+118D8U+118D9U+118DAU+118DBU+118DCU+118DDU+118DEU+118DFU+16E40U+16E41U+16E42"
         \o "U+16E43U+16E44U+16E45U+16E46U+16E47U+16E48U+16E49U+16E4AU+16E4BU+16E4CU+16E4DU+16E4EU+16E4FU+16E50U+16E51U+16E52U+16E53U+16E54U+16E55U+16E56U+16E57U+16E58U+16E59U+16E5AU+16E5BU+16E5CU+16E5DU+16E5EU+16E5FU+16E60U+16E61U+16E62U+16E63U+16E64U+16E65U+16E66U+16E67U+16E68U+16E69U+16E6AU+16E6BU+16E6CU+16E6DU+16E6EU+16E6FU+16E70U+16E71U+16E72U+16E73U+16E74U+16E75U+16E76U+16E77U+16E78U+16E79U+16E7AU+16E7BU+16E7CU+16E7DU+16E7EU+16E7FU+1D400U+1D401U+1D402U+1D403U+1D404U+1D405U+1D406U+1D407U+1D408"
         \o "U+1D409U+1D40AU+1D40BU+1D40CU+1D40DU+1D40EU+1D40FU+1D410U+1D411U+1D412U+1D413U+1D414U+1D415U+1D416U+1D417U+1D418U+1D419U+1D41AU+1D41BU+1D41CU+1D41DU+1D41EU+1D41FU+1D420U+1D421U+1D422U+1D423U+1D424U+1D425U+1D426U+1D427U+1D428U+1D429U+1D42AU+1D42BU+1D42CU+1D42DU+1D42EU+1D42FU+1D430U+1D431U+1D432U+1D433U+1D434U+1D435U+1D436U+1D437U+1D438U+1D439U+1D43AU+1D43BU+1D43CU+1D43DU+1D43EU+1D43FU+1D440U+1D441U+1D442U+1D443U+1D444U+1D445U+1D446U+1D447U+1D448U+1D449U+1D44AU+1D44BU+1D44CU+1D44DU+1D44E"
         \o "U+1D44FU+1D450U+1D451U+1D452U+1D453U+1D454U+1D456U+1D457U+1D458U+1D459U+1D45AU+1D45BU+1D45CU+1D45DU+1D45EU+1D45FU+1D460U+1D461U+1D462U+1D463U+1D464U+1D465U+1D466U+1D467U+1D468U+1D469U+1D46AU+1D46BU+1D46CU+1D46DU+1D46EU+1D46FU+1D470U+1D471U+1D472U+1D473U+1D474U+1D475U+1D476U+1D477U+1D478U+1D479U+1D47AU+1D47BU+1D47CU+1D47DU+1D47EU+1D47FU+1D480U+1D481U+1D482U+1D483U+1D484U+1D485U+1D486U+1D487U+1D488U+1D489U+1D48AU+1D48BU+1D48CU+1D48DU+1D48EU+1D48FU+1D490U+1D491U+1D492U+1D493U+1D494U+1D495"
         \o "U+1D496U+1D497U+1D498U+1D499U+1D49AU+1D49BU+1D49CU+1D49EU+1D49FU+1D4A2U+1D4A5U+1D4A6U+1D4A9U+1D4AAU+1D4ABU+1D4ACU+1D4AEU+1D4AFU+1D4B0U+1D4B1U+1D4B2U+1D4B3U+1D4B4U+1D4B5U+1D4B6U+1D4B7U+1D4B8U+1D4B9U+1D4BBU+1D4BDU+1D4BEU+1D4BFU+1D4C0U+1D4C1U+1D4C2U+1D4C3U+1D4C5U+1D4C6U+1D4C7U+1D4C8U+1D4C9U+1D4CAU+1D4CBU+1D4CCU+1D4CDU+1D4CEU+1D4CFU+1D4D0U+1D4D1U+1D4D2U+1D4D3U+1D4D4U+1D4D5U+1D4D6U+1D4D7U+1D4D8U+1D4D9U+1D4DAU+1D4DBU+1D4DCU+1D4DDU+1D4DEU+1D4DFU+1D4E0U+1D4E1U+1D4E2U+1D4E3U+1D4E4U+1D4E5U+1D4E6"
         \o "U+1D4E7U+1D4E8U+1D4E9U+1D4EAU+1D4EBU+1D4ECU+1D4EDU+1D4EEU+1D4EFU+1D4F0U+1D4F1U+1D4F2U+1D4F3U+1D4F4U+1D4F5U+1D4F6U+1D4F7U+1D4F8U+1D4F9U+1D4FAU+1D4FBU+1D4FCU+1D4FDU+1D4FEU+1D4FFU+1D500U+1D501U+1D502U+1D503U+1D504U+1D505U+1D507U+1D508U+1D509U+1D50AU+1D50DU+1D50EU+1D50FU+1D510U+1D511U+1D512U+1D513U+1D514U+1D516U+1D517U+1D518U+1D519U+1D51AU+1D51BU+1D51CU+1D51EU+1D51FU+1D520U+1D521U+1D522U+1D523U+1D524U+1D525U+1D526U+1D527U+1D528U+1D529U+1D52AU+1D52BU+1D52CU+1D52DU+1D52EU+1D52FU+1D530U+1D531"
         \o "U+1D532U+1D533U+1D534U+1D535U+1D536U+1D537U+1D538U+1D539U+1D53BU+1D53CU+1D53DU+1D53EU+1D540U+1D541U+1D542U+1D543U+1D544U+1D546U+1D54AU+1D54BU+1D54CU+1D54DU+1D54EU+1D54FU+1D550U+1D552U+1D553U+1D554U+1D555U+1D556U+1D557U+1D558U+1D559U+1D55AU+1D55BU+1D55CU+1D55DU+1D55EU+1D55FU+1D560U+1D561U+1D562U+1D563U+1D564U+1D565U+1D566U+1D567U+1D568U+1D569U+1D56AU+1D56BU+1D56CU+1D56DU+1D56EU+1D56FU+1D570U+1D571U+1D572U+1D573U+1D574U+1D575U+1D576U+1D577U+1D578U+1D579U+1D57AU+1D57BU+1D57CU+1D57DU+1D57E"
         \o "U+1D57FU+1D580U+1D581U+1D582U+1D583U+1D584U+1D585U+1D586U+1D587U+1D588U+1D589U+1D58AU+1D58BU+1D58CU+1D58DU+1D58EU+1D58FU+1D590U+1D591U+1D592U+1D593U+1D594U+1D595U+1D596U+1D597U+1D598U+1D599U+1D59AU+1D59BU+1D59CU+1D59DU+1D59EU+1D59FU+1D5A0U+1D5A1U+1D5A2U+1D5A3U+1D5A4U+1D5A5U+1D5A6U+1D5A7U+1D5A8U+1D5A9U+1D5AAU+1D5ABU+1D5ACU+1D5ADU+1D5AEU+1D5AFU+1D5B0U+1D5B1U+1D5B2U+1D5B3U+1D5B4U+1D5B5U+1D5B6U+1D5B7U+1D5B8U+1D5B9U+1D5BAU+1D5BBU+1D5BCU+1D5BDU+1D5BEU+1D5BFU+1D5C0U+1D5C1U+1D5C2U+1D5C3U+1D5C4"
         \o "U+1D5C5U+1D5C6U+1D5C7U+1D5C8U+1D5C9U+1D5CAU+1D5CBU+1D5CCU+1D5CDU+1D5CEU+1D5CFU+1D5D0U+1D5D1U+1D5D2U+1D5D3U+1D5D4U+1D5D5U+1D5D6U+1D5D7U+1D5D8U+1D5D9U+1D5DAU+1D5DBU+1D5DCU+1D5DDU+1D5DEU+1D5DFU+1D5E0U+1D5E1U+1D5E2U+1D5E3U+1D5E4U+1D5E5U+1D5E6U+1D5E7U+1D5E8U+1D5E9U+1D5EAU+1D5EBU+1D5ECU+1D5EDU+1D5EEU+1D5EFU+1D5F0U+1D5F1U+1D5F2U+1D5F3U+1D5F4U+1D5F5U+1D5F6U+1D5F7U+1D5F8U+1D5F9U+1D5FAU+1D5FBU+1D5FCU+1D5FDU+1D5FEU+1D5FFU+1D600U+1D601U+1D602U+1D603U+1D604U+1D605U+1D606U+1D607U+1D608U+1D609U+1D60A"
         \o "U+1D60BU+1D60CU+1D60DU+1D60EU+1D60FU+1D610U+1D611U+1D612U+1D613U+1D614U+1D615U+1D616U+1D617U+1D618U+1D619U+1D61AU+1D61BU+1D61CU+1D61DU+1D61EU+1D61FU+1D620U+1D621U+1D622U+1D623U+1D624U+1D625U+1D626U+1D627U+1D628U+1D629U+1D62AU+1D62BU+1D62CU+1D62DU+1D62EU+1D62FU+1D630U+1D631U+1D632U+1D633U+1D634U+1D635U+1D636U+1D637U+1D638U+1D639U+1D63AU+1D63BU+1D63CU+1D63DU+1D63EU+1D63FU+1D640U+1D641U+1D642U+1D643U+1D644U+1D645U+1D646U+1D647U+1D648U+1D649U+1D64AU+1D64BU+1D64CU+1D64DU+1D64EU+1D64FU+1D650"
         \o "U+1D651U+1D652U+1D653U+1D654U+1D655U+1D656U+1D657U+1D658U+1D659U+1D65AU+1D65BU+1D65CU+1D65DU+1D65EU+1D65FU+1D660U+1D661U+1D662U+1D663U+1D664U+1D665U+1D666U+1D667U+1D668U+1D669U+1D66AU+1D66BU+1D66CU+1D66DU+1D66EU+1D66FU+1D670U+1D671U+1D672U+1D673U+1D674U+1D675U+1D676U+1D677U+1D678U+1D679U+1D67AU+1D67BU+1D67CU+1D67DU+1D67EU+1D67FU+1D680U+1D681U+1D682U+1D683U+1D684U+1D685U+1D686U+1D687U+1D688U+1D689U+1D68AU+1D68BU+1D68CU+1D68DU+1D68EU+1D68FU+1D690U+1D691U+1D692U+1D693U+1D694U+1D695U+1D696"
         \o "U+1D697U+1D698U+1D699U+1D69AU+1D69BU+1D69CU+1D69DU+1D69EU+1D69FU+1D6A0U+1D6A1U+1D6A2U+1D6A3U+1D6A4U+1D6A5U+1D6A8U+1D6A9U+1D6AAU+1D6ABU+1D6ACU+1D6ADU+1D6AEU+1D6AFU+1D6B0U+1D6B1U+1D6B2U+1D6B3U+1D6B4U+1D6B5U+1D6B6U+1D6B7U+1D6B8U+1D6B9U+1D6BAU+1D6BBU+1D6BCU+1D6BDU+1D6BEU+1D6BFU+1D6C0U+1D6C2U+1D6C3U+1D6C4U+1D6C5U+1D6C6U+1D6C7U+1D6C8U+1D6C9U+1D6CAU+1D6CBU+1D6CCU+1D6CDU+1D6CEU+1D6CFU+1D6D0U+1D6D1U+1D6D2U+1D6D3U+1D6D4U+1D6D5U+1D6D6U+1D6D7U+1D6D8U+1D6D9U+1D6DAU+1D6DCU+1D6DDU+1D6DEU+1D6DFU+1D6E0"
         \o "U+1D6E1U+1D6E2U+1D6E3U+1D6E4U+1D6E5U+1D6E6U+1D6E7U+1D6E8U+1D6E9U+1D6EAU+1D6EBU+1D6ECU+1D6EDU+1D6EEU+1D6EFU+1D6F0U+1D6F1U+1D6F2U+1D6F3U+1D6F4U+1D6F5U+1D6F6U+1D6F7U+1D6F8U+1D6F9U+1D6FAU+1D6FCU+1D6FDU+1D6FEU+1D6FFU+1D700U+1D701U+1D702U+1D703U+1D704U+1D705U+1D706U+1D707U+1D708U+1D709U+1D70AU+1D70BU+1D70CU+1D70DU+1D70EU+1D70FU+1D710U+1D711U+1D712U+1D713U+1D714U+1D716U+1D717U+1D718U+1D719U+1D71AU+1D71BU+1D71CU+1D71DU+1D71EU+1D71FU+1D720U+1D721U+1D722U+1D723U+1D724U+1D725U+1D726U+1D727U+1D728"
         \o "U+1D729U+1D72AU+1D72BU+1D72CU+1D72DU+1D72EU+1D72FU+1D730U+1D731U+1D732U+1D733U+1D734U+1D736U+1D737U+1D738U+1D739U+1D73AU+1D73BU+1D73CU+1D73DU+1D73EU+1D73FU+1D740U+1D741U+1D742U+1D743U+1D744U+1D745U+1D746U+1D747U+1D748U+1D749U+1D74AU+1D74BU+1D74CU+1D74DU+1D74EU+1D750U+1D751U+1D752U+1D753U+1D754U+1D755U+1D756U+1D757U+1D758U+1D759U+1D75AU+1D75BU+1D75CU+1D75DU+1D75EU+1D75FU+1D760U+1D761U+1D762U+1D763U+1D764U+1D765U+1D766U+1D767U+1D768U+1D769U+1D76AU+1D76BU+1D76CU+1D76DU+1D76EU+1D770U+1D771"
         \o "U+1D772U+1D773U+1D774U+1D775U+1D776U+1D777U+1D778U+1D779U+1D77AU+1D77BU+1D77CU+1D77DU+1D77EU+1D77FU+1D780U+1D781U+1D782U+1D783U+1D784U+1D785U+1D786U+1D787U+1D788U+1D78AU+1D78BU+1D78CU+1D78DU+1D78EU+1D78FU+1D790U+1D791U+1D792U+1D793U+1D794U+1D795U+1D796U+1D797U+1D798U+1D799U+1D79AU+1D79BU+1D79CU+1D79DU+1D79EU+1D79FU+1D7A0U+1D7A1U+1D7A2U+1D7A3U+1D7A4U+1D7A5U+1D7A6U+1D7A7U+1D7A8U+1D7AAU+1D7ABU+1D7ACU+1D7ADU+1D7AEU+1D7AFU+1D7B0U+1D7B1U+1D7B2U+1D7B3U+1D7B4U+1D7B5U+1D7B6U+1D7B7U+1D7B8U+1D7B9"
         \o "U+1D7BAU+1D7BBU+1D7BCU+1D7BDU+1D7BEU+1D7BFU+1D7C0U+1D7C1U+1D7C2U+1D7C4U+1D7C5U+1D7C6U+1D7C7U+1D7C8U+1D7C9U+1D7CAU+1D7CBU+1DF00U+1DF01U+1DF02U+1DF03U+1DF04U+1DF05U+1DF06U+1DF07U+1DF08U+1DF09U+1DF0BU+1DF0CU+1DF0DU+1DF0EU+1DF0FU+1DF10U+1DF11U+1DF12U+1DF13U+1DF14U+1DF15U+1DF16U+1DF17U+1DF18U+1DF19U+1DF1AU+1DF1BU+1DF1CU+1DF1DU+1DF1EU+1E900U+1E901U+1E902U+1E903U+1E904U+1E905U+1E906U+1E907U+1E908U+1E909U+1E90AU+1E90BU+1E90CU+1E90DU+1E90EU+1E90FU+1E910U+1E911U+1E912U+1E913U+1E914U+1E915U+1E916"
         \o "U+1E917U+1E918U+1E919U+1E91AU+1E91BU+1E91CU+1E91DU+1E91EU+1E91FU+1E920U+1E921U+1E922U+1E923U+1E924U+1E925U+1E926U+1E927U+1E928U+1E929U+1E92AU+1E92BU+1E92CU+1E92DU+1E92EU+1E92FU+1E930U+1E931U+1E932U+1E933U+1E934U+1E935U+1E936U+1E937U+1E938U+1E939U+1E93AU+1E93BU+1E93CU+1E93DU+1E93EU+1E93FU+1E940U+1E941U+1E942U+1E943U+1F130U+1F131U+1F132U+1F133U+1F134U+1F135U+1F136U+1F137U+1F138U+1F139U+1F13AU+1F13BU+1F13CU+1F13DU+1F13EU+1F13FU+1F140U+1F141U+1F142U+1F143U+1F144U+1F145U+1F146U+1F147U+1F148"
         \o "U+1F149U+1F150U+1F151U+1F152U+1F153U+1F154U+1F155U+1F156U+1F157U+1F158U+1F159U+1F15AU+1F15BU+1F15CU+1F15DU+1F15EU+1F15FU+1F160U+1F161U+1F162U+1F163U+1F164U+1F165U+1F166U+1F167U+1F168U+1F169U+1F170U+1F171U+1F172U+1F173U+1F174U+1F175U+1F176U+1F177U+1F178U+1F179U+1F17AU+1F17BU+1F17CU+1F17DU+1F17EU+1F17FU+1F180U+1F181U+1F182U+1F183U+1F184U+1F185U+1F186U+1F187U+1F188U+1F189", 1)

\* c.lower() for one character c: a text of one character, or of two for U+0130
lower_char(c) == convert(c, IF Len(c) = 1 THEN AsciiLower ELSE ToLower)

\* What str.lower() makes of the capital sigma at position i of s: the final sigma U+03C2
\* when, the characters of skip passed over, a character of cased stands before it and none
\* after it, and the small sigma U+03C3 otherwise
final_sigma(s, i, skip, cased) ==
    IF /\ \E b \in 1..(i - 1) : /\ <<s[b]>> \in cased
                                /\ \A m \in (b + 1)..(i - 1) : <<s[m]>> \in skip
       /\ \A a \in (i + 1)..Len(s) :
              (\A m \in (i + 1)..(a - 1) : <<s[m]>> \in skip) => <<s[a]>> \notin cased
    THEN "U+03C2" ELSE "U+03C3"

\* ''.join(parts)
RECURSIVE concat(_)
concat(parts) == IF parts = <<>> THEN <<>> ELSE Head(parts) \o concat(Tail(parts))

\* str.lower()
lower(s) ==
    concat([i \in 1..Len(s) |->
               IF s[i] = "U+03A3" THEN <<final_sigma(s, i, CaseIgnorable, Cased)>>
               ELSE lower_char(s[i])])

\* str.replace(old, new) for one-character old and new
replace(s, old, new) == [i \in 1..Len(s) |-> IF s[i] = old THEN new ELSE s[i]]

\* safe_name that leaves hyphens as they are
safe_name_keep_hyphen(app_name) == replace(lower(app_name), " ", "_")

\* app_name.lower().replace(' ', '_').replace('-', '_')
safe_name(app_name) == replace(replace(lower(app_name), " ", "_"), "-", "_")

\* the index of the last "/" of p, 0 when there is none: p.rfind('/') + 1
rfind_sep(p) == IF \E i \in 1..Len(p) : p[i] = "/"
                THEN CHOOSE i \in 1..Len(p) : p[i] = "/" /\ \A j \in (i+1)..Len(p) : p[j] # "/"
                ELSE 0

\* os.path.dirname (posixpath)
dirname(p) ==
    LET head == SubSeq(p, 1, rfind_sep(p))
    IN  IF head # <<>> /\ \E i \in 1..Len(head) : head[i] # "/"
        THEN rstrip_chars(head, {"/"}) ELSE head

\* os.path.basename (posixpath)
basename(p) == SubSeq(p, rfind_sep(p) + 1, Len(p))

\* os.path.join(a, b) for a relative b (posixpath)
path_join(a, b) == IF a = <<>> THEN b
                   ELSE IF a[Len(a)] = "/" THEN a \o b
                   ELSE a \o <<"/">> \o b

\* a Python str literal, kept as one chunk of text
Lit(text) == <<text>>

\* ---------------------------------------------------------------- dicts

\* d.get(k, default)
Get(d, k, default) == IF k \in DOMAIN d THEN d[k] ELSE default

\* d[k] = v
SetKey(d, k, v) == [x \in DOMAIN d \cup {k} |-> IF x = k THEN v ELSE d[x]]

\* a del that leaves the key in place
DelKey_keeps(d, k) == d

\* del d[k]
DelKey(d, k) == [x \in DOMAIN d \ {k} |-> d[x]]

\* Python's None, as stored under 'last_run'; datetime values are >= 1
None == 0

\* ---------------------------------------------------------------- the file system

\* self.scripts_dir
scripts_dir == Lit("~/.python_app_launcher/scripts")

\* get_desktop_files_dir()
desktop_files_dir == Lit("~/.local/share/applications")

\* IconGenerator.get_icons_dir()
icons_dir == Lit("~/.local/share/icons/python-launcher")

\* paths of the user's own files that exist on disk (virtual environments, scripts);
\* every other path outside the generated files does not exist
ExistingUserPaths == { <<"/","v">>, <<"/","d","/","s",".","p","y">>, <<"/","i">> }

\* os.path.exists(path)
path_exists(fs, path) == path \in DOMAIN fs \/ path \in ExistingUserPaths

\* a write that appends to what the file holds
write_file_append(fs, path, content) ==
    [p \in DOMAIN fs \cup {path} |->
        IF p = path THEN (IF path \in DOMAIN fs THEN fs[path] \o content ELSE content)
        ELSE fs[p]]

\* open(path, 'w').write(content): a full overwrite
write_file(fs, path, content) ==
    [p \in DOMAIN fs \cup {path} |-> IF p = path THEN content ELSE fs[p]]

\* os.remove(path)
remove_file(fs, path) == [p \in DOMAIN fs \ {path} |-> fs[p]]

\* ---------------------------------------------------------------- artifact paths

activation_script_path(app_name) ==
    path_join(scripts_dir, safe_name(app_name) \o <<".","s","h">>)

launcher_script_path(app_name) ==
    path_join(scripts_dir, <<"l","a","u","n","c","h","_">> \o safe_name(app_name) \o <<".","s","h">>)

desktop_file_path(app_name) ==
    path_join(desktop_files_dir, safe_name(app_name) \o <<".","d","e","s","k","t","o","p">>)

\* get_icon_path that gives every app the same file
get_icon_path_one_file(app_name) == path_join(icons_dir, <<"i","c","o","n",".","p","n","g">>)

\* IconGenerator.get_icon_path(app_name)
get_icon_path(app_name) ==
    path_join(icons_dir, safe_name(app_name) \o <<".","p","n","g">>)

\* ---------------------------------------------------------------- script templates

\* an activation script that activates the environment before it changes directory
activation_script_source_first(app_config) ==
    LET app_name    == app_config["name"]
        venv_path   == app_config["venv"]
        script_path == app_config["script"]
        args        == Get(app_config, "args", <<>>)
        workdir     == Get(app_config, "workdir", dirname(script_path))
    IN  << Lit("#!/bin/bash"),
           Lit("echo \"Running ") \o app_name \o Lit("...\""),
           Lit("echo \"\""),
           <<>>,
           Lit("# Activate virtual environment"),
           Lit("echo \"Activating virtual environment...\""),
           Lit("source \"") \o path_join(path_join(venv_path, <<"b","i","n">>),
                                         <<"a","c","t","i","v","a","t","e">>) \o Lit("\""),
           <<>>,
           Lit("# Change to working directory"),
           Lit("cd \"") \o workdir \o Lit("\""),
           <<>>,
           Lit("# Run the Python script"),
           Lit("echo \"Running script: ") \o basename(script_path) \o Lit("\""),
           Lit("python3 \"") \o script_path \o Lit("\" ") \o args,
           <<>>,
           Lit("# Keep terminal open"),
           Lit("echo \"\""),
           Lit("echo \"Script execution complete.\""),
           Lit("read -p \"Press Enter to exit...\"") >>

\* the POSIX activation script, one element per line; <<>> is an empty line
activation_script_content(app_config) ==
    LET app_name    == app_config["name"]
        venv_path   == app_config["venv"]
        script_path == app_config["script"]
        args        == Get(app_config, "args", <<>>)
        workdir     == Get(app_config, "workdir", dirname(script_path))
    IN  << Lit("#!/bin/bash"),
           Lit("echo \"Running ") \o app_name \o Lit("...\""),
           Lit("echo \"\""),
           <<>>,
           Lit("# Change to working directory"),
           Lit("cd \"") \o workdir \o Lit("\""),
           <<>>,
           Lit("# Activate virtual environment"),
           Lit("echo \"Activating virtual environment...\""),
           Lit("source \"") \o path_join(path_join(venv_path, <<"b","i","n">>),
                                         <<"a","c","t","i","v","a","t","e">>) \o Lit("\""),
           <<>>,
           Lit("# Run the Python script"),
           Lit("echo \"Running script: ") \o basename(script_path) \o Lit("\""),
           Lit("python3 \"") \o script_path \o Lit("\" ") \o args,
           <<>>,
           Lit("# Keep terminal open"),
           Lit("echo \"\""),
           Lit("echo \"Script execution complete.\""),
           Lit("read -p \"Press Enter to exit...\"") >>

\* the POSIX launcher script
launcher_script_content(app_config, activation_script) ==
    << Lit("#!/bin/bash"),
       Lit("xterm -title \"Running: ") \o app_config["name"]
           \o Lit("\" -geometry 100x30 -e \"bash -i '") \o activation_script \o Lit("'\" &") >>

\* create_activation_script: the file system afterwards, the path returned, and whether
\* open() raised (w_ok = FALSE), in which case nothing is written
create_activation_script(fs, app_config, w_ok) ==
    LET script_filepath == activation_script_path(app_config["name"])
    IN  [ fs     |-> IF w_ok THEN write_file(fs, script_filepath,
                                             activation_script_content(app_config))
                     ELSE fs,
          path   |-> script_filepath,
          raised |-> ~w_ok ]

\* create_xterm_launcher
create_xterm_launcher(fs, app_config, activation_script, w_ok) ==
    LET launcher_filepath == launcher_script_path(app_config["name"])
    IN  [ fs     |-> IF w_ok THEN write_file(fs, launcher_filepath,
                                             launcher_script_content(app_config, activation_script))
                     ELSE fs,
          path   |-> launcher_filepath,
          raised |-> ~w_ok ]

\* ---------------------------------------------------------------- the registry file

\* what apps.json can hold: nothing, text that is no JSON, a scalar (a string, whose
\* characters are text, or a number, null or a boolean), an object with its members, or an
\* array with its items
FileMissing    == [kind |-> "missing"]
FileUnparsable == [kind |-> "unparsable"]
FileScalar(type, text) == [kind |-> "scalar", type |-> type, text |-> text]
FileObject(members) == [kind |-> "object", members |-> members]
FileArray(items) == [kind |-> "array", items |-> items]

\* json.dump(self.saved_apps, f): str, int, None and bool values are written as they are
json_dump(apps) == FileArray(apps)

\* save_apps: an error opening the file is caught and logged, the file stays as it was
save_apps(file, apps, w_ok) == IF w_ok THEN json_dump(apps) ELSE file

\* refresh_apps_list reads app['name'] of every element and raises when it cannot
refresh_raises(value) == \E i \in 1..Len(value) : "name" \notin DOMAIN value[i]

\* load_apps, from self.saved_apps = [] as __init__ leaves it
load_apps(file) ==
    CASE file.kind = "missing"    -> <<>>
      [] file.kind = "unparsable" -> <<>>
      [] file.kind = "scalar"     -> <<>>
      [] file.kind = "object"     -> <<>>
      [] file.kind = "array"      -> IF refresh_raises(file.items) THEN <<>> ELSE file.items

\* the type of self.saved_apps after load_apps: json.load gives '' for "" and {} for {}, and
\* refresh_apps_list iterates over nothing and does not raise, so the value stays. A number,
\* null or a boolean cannot be iterated, and the characters of a string and the keys of an
\* object have no get: refresh_apps_list raises and the except clause sets []. In every other
\* case the registry is a list too (the loaded array, or [] as __init__ left it)
load_kind(file) ==
    CASE file.kind = "scalar" /\ file.type = "str" /\ file.text = <<>> -> "str"
      [] file.kind = "object" /\ DOMAIN file.members = {}              -> "dict"
      [] OTHER                                                         -> "list"

\* ---------------------------------------------------------------- launching

\* A handler that returns before it changes anything (a dialog answered "no", nothing to
\* act on) leaves every variable as it is, `last' included; only save_and_create_script's
\* refusals are recorded in `last'.

\* one subprocess.Popen call: the program started, whether Popen returned a child (ok) or
\* raised, and how the child is held: in a session of its own, never waited for
Popen(program, script_path, ok) ==
    [program |-> program, script |-> script_path, ok |-> ok,
     new_session |-> TRUE, waited |-> FALSE]

\* a launch whose fallback is tried a second time when it failed, the second failure raising
launch_attempts_retry(fs, script_path, xterm_ok, bash_ok) ==
    IF ~path_exists(fs, script_path)
    THEN [spawns |-> <<>>, log |-> <<"error">>, raised |-> FALSE, outcome |-> "notfound"]
    ELSE IF xterm_ok
    THEN [spawns |-> <<Popen("xterm", script_path, TRUE)>>, log |-> <<"success">>,
          raised |-> FALSE, outcome |-> "xterm"]
    ELSE IF bash_ok
    THEN [spawns |-> <<Popen("xterm", script_path, FALSE), Popen("bash", script_path, TRUE)>>,
          log |-> <<"error", "success">>, raised |-> FALSE, outcome |-> "bash"]
    ELSE [spawns |-> <<Popen("xterm", script_path, FALSE), Popen("bash", script_path, FALSE),
                       Popen("bash", script_path, FALSE)>>,
          log |-> <<"error", "error">>, raised |-> TRUE, outcome |-> "failed"]

\* run_script_file step by step: the Popen calls it makes in order, the messages it logs,
\* whether an exception leaves it, and its outcome: "notfound" when the script file is
\* missing (logged, nothing started), "xterm" when the terminal was spawned, "bash" when
\* spawning xterm raised and the direct run worked, "failed" when the fallback raised too
launch_attempts(fs, script_path, xterm_ok, bash_ok) ==
    IF ~path_exists(fs, script_path)
    THEN [spawns |-> <<>>, log |-> <<"error">>, raised |-> FALSE, outcome |-> "notfound"]
    ELSE IF xterm_ok
    THEN [spawns |-> <<Popen("xterm", script_path, TRUE)>>, log |-> <<"success">>,
          raised |-> FALSE, outcome |-> "xterm"]
    ELSE IF bash_ok
    THEN [spawns |-> <<Popen("xterm", script_path, FALSE), Popen("bash", script_path, TRUE)>>,
          log |-> <<"error", "success">>, raised |-> FALSE, outcome |-> "bash"]
    ELSE [spawns |-> <<Popen("xterm", script_path, FALSE), Popen("bash", script_path, FALSE)>>,
          log |-> <<"error", "error">>, raised |-> FALSE, outcome |-> "failed"]

\* run_script_file, by its outcome
run_script_file(fs, script_path, xterm_ok, bash_ok) ==
    launch_attempts(fs, script_path, xterm_ok, bash_ok).outcome

Started(how) == how \in {"xterm", "bash"}

\* ---------------------------------------------------------------- inputs

\* what the file system and the process spawner do during one handler
AllOk == [save_w |-> TRUE, act_w |-> TRUE, launch_w |-> TRUE, desk_w |-> TRUE,
          desk_write_ok |-> TRUE, chmod_ok |-> TRUE, rm_ok |-> TRUE, xterm_ok |-> TRUE,
          bash_ok |-> TRUE, render_ok |-> TRUE]

NoFaults == {AllOk}

\* the form fields: app_name_var, venv_path_var, script_path_var, args_var, workdir_var;
\* a field left blank holds nothing or whitespace only: a space and a carriage return, a tab
\* and a vertical tab
NameInputs    == { <<" ","\r">>, <<"A"," ","b">>, <<"a","-","b">>, <<" ","c"," ">> }
VenvInputs    == { <<"\t","U+000B">>, <<"/","v">>, <<"/","n","v">> }
ScriptInputs  == { <<>>, <<"/","d","/","s",".","p","y">>, <<"/","n","s">> }

\* arguments and working directory: none given, or both given
ExtraInputs   == { [args |-> <<>>, workdir |-> <<>>],
                   [args |-> <<"-","x">>, workdir |-> <<"/","w">>] }

ExistingVenv   == <<"/","v">>
ExistingScript == <<"/","d","/","s",".","p","y">>

\* every name with the existing venv and script and every choice of arguments and working
\* directory, and one name with each other venv and each other script
Forms == { [name |-> n, venv |-> ExistingVenv, script |-> ExistingScript,
            args |-> e.args, workdir |-> e.workdir] :
               n \in NameInputs, e \in ExtraInputs }
         \cup
         { [name |-> <<"A"," ","b">>, venv |-> v, script |-> ExistingScript,
            args |-> <<>>, workdir |-> <<>>] : v \in VenvInputs }
         \cup
         { [name |-> <<"A"," ","b">>, venv |-> ExistingVenv, script |-> s,
            args |-> <<>>, workdir |-> <<>>] : s \in ScriptInputs }

\* the forms run_now is tried with: a named form with the existing venv and script, and
\* forms without a name, a venv or a script
RunNowForms == { f \in Forms : /\ strip(f.name) = <<>> => f.workdir = <<>>
                               /\ f.venv # <<"/","n","v">>
                               /\ f.script # <<"/","n","s">> }

\* ---------------------------------------------------------------- the registry

\* the index of the first descriptor named app_name, 0 when there is none
\* (existing_index of save_and_create_script, counted from 1)
existing_index(apps, app_name) ==
    IF \E i \in 1..Len(apps) : apps[i]["name"] = app_name
    THEN CHOOSE i \in 1..Len(apps) :
             apps[i]["name"] = app_name /\ \A j \in 1..(i-1) : apps[j]["name"] # app_name
    ELSE 0

\* upsert without the search for an existing descriptor
upsert_always_append(apps, app_config) == Append(apps, app_config)

\* upsert that drops the existing descriptor and appends the new one
upsert_move_to_end(apps, app_config) ==
    Append(SelectSeq(apps, LAMBDA a : a["name"] # app_config["name"]), app_config)

\* self.saved_apps[existing_index] = app_config, or self.saved_apps.append(app_config)
upsert(apps, app_config) ==
    LET i == existing_index(apps, app_config["name"])
    IN  IF i > 0 THEN [apps EXCEPT ![i] = app_config] ELSE Append(apps, app_config)

\* [app for app in self.saved_apps if app['name'] != app_name]
RECURSIVE without_name(_, _)
without_name(apps, app_name) ==
    IF apps = <<>> THEN <<>>
    ELSE IF Head(apps)["name"] # app_name
         THEN <<Head(apps)>> \o without_name(Tail(apps), app_name)
         ELSE without_name(Tail(apps), app_name)

\* the empty-field checks without the check of the name
missing_field_no_name(app_name, venv_path, script_path) ==
    venv_path = <<>> \/ script_path = <<>>

\* the empty-field checks of save_and_create_script, on the stripped fields
missing_field(app_name, venv_path, script_path) ==
    app_name = <<>> \/ venv_path = <<>> \/ script_path = <<>>

\* the os.path.exists checks without the check of the script
path_not_found_venv_only(fs, venv_path, script_path) == ~path_exists(fs, venv_path)

\* the os.path.exists checks of save_and_create_script
path_not_found(fs, venv_path, script_path) ==
    ~path_exists(fs, venv_path) \/ ~path_exists(fs, script_path)

\* the dict save_and_create_script builds from the form
new_app_config(form, now) ==
    [ name     |-> strip(form.name),
      venv     |-> strip(form.venv),
      script   |-> strip(form.script),
      args     |-> strip(form.args),
      workdir  |-> strip(form.workdir),
      created  |-> now,
      last_run |-> None ]

\* a descriptor on which only the launcher script is recorded
with_launcher_only(app_config, activation_script, launcher_script) ==
    SetKey(app_config, "launcher_script", launcher_script)

\* app_config['activation_script'] = ...; app_config['launcher_script'] = ...
with_scripts(app_config, activation_script, launcher_script) ==
    SetKey(SetKey(app_config, "activation_script", activation_script),
           "launcher_script", launcher_script)

\* what save_and_create_script does once the form passed its checks and an overwrite,
\* if any, was confirmed: the registry, the registry file and the files afterwards,
\* and what was launched
save_accepted(apps, file, fs, form, now, run, io) ==
    LET app_config == new_app_config(form, now)
        apps1 == upsert(apps, app_config)
        i     == existing_index(apps1, app_config["name"])
        file1 == save_apps(file, apps1, io.save_w)
        a     == create_activation_script(fs, app_config, io.act_w)
        l     == create_xterm_launcher(a.fs, app_config, a.path, io.launch_w)
    IN  IF a.raised
        THEN [apps |-> apps1, file |-> file1, fs |-> a.fs, out |-> "raised", how |-> "none"]
        ELSE IF l.raised
        THEN [apps |-> apps1, file |-> file1, fs |-> l.fs, out |-> "raised", how |-> "none"]
        ELSE [apps |-> [apps1 EXCEPT ![i] = with_scripts(app_config, a.path, l.path)],
              file |-> file1,
              fs   |-> l.fs,
              out  |-> IF existing_index(apps, app_config["name"]) > 0
                       THEN "overwritten" ELSE "appended",
              how  |-> IF run THEN run_script_file(l.fs, l.path, io.xterm_ok, io.bash_ok)
                       ELSE "none"]

\* save_and_create_script with the form as given, the answers to its two questions
\* (overwrite? run now?) and the faults of the environment
save_and_create_script(form, overwrite, run, io) ==
    LET app_name    == strip(form.name)
        venv_path   == strip(form.venv)
        script_path == strip(form.script)
    IN  IF missing_field(app_name, venv_path, script_path)
        THEN /\ last' = [op |-> "save", name |-> <<>>, out |-> "rejected_empty", how |-> "none"]
             /\ clock' = clock + 1
             /\ UNCHANGED <<saved_apps, apps_file, files>>
        ELSE IF path_not_found(files, venv_path, script_path)
        THEN /\ last' = [op |-> "save", name |-> <<>>, out |-> "rejected_notfound", how |-> "none"]
             /\ clock' = clock + 1
             /\ UNCHANGED <<saved_apps, apps_file, files>>
        ELSE IF saved_kind # "list"
        THEN \* self.saved_apps.append raises AttributeError on a str or a dict
             /\ last' = [op |-> "save", name |-> app_name, out |-> "raised", how |-> "none"]
             /\ clock' = clock + 1
             /\ UNCHANGED <<saved_apps, apps_file, files>>
        ELSE IF existing_index(saved_apps, app_name) > 0 /\ ~overwrite
        THEN /\ last' = [op |-> "save", name |-> <<>>, out |-> "declined", how |-> "none"]
             /\ clock' = clock + 1
             /\ UNCHANGED <<saved_apps, apps_file, files>>
        ELSE LET r == save_accepted(saved_apps, apps_file, files, form, clock, run, io)
             IN  /\ existing_index(saved_apps, app_name) = 0 => Len(saved_apps) < MaxApps
                 /\ saved_apps' = r.apps
                 /\ apps_file' = r.file
                 /\ files' = r.fs
                 /\ clock' = clock + 1
                 /\ last' = [op |-> "save", name |-> app_name, out |-> r.out, how |-> r.how]

SaveAndCreateScript(F, IO) ==
    /\ clock < MaxClock
    /\ UNCHANGED <<jobs, saved_kind>>
    /\ \E form \in F, overwrite \in BOOLEAN, run \in BOOLEAN, io \in IO :
        save_and_create_script(form, overwrite, run, io)

\* hex digits by value: HexDigits[v + 1] is the lower-case digit of value v, the first ten
\* being the decimal digits
HexDigits == <<"0","1","2","3","4","5","6","7","8","9","a","b","c","d","e","f">>

\* datetime.now().strftime('%H%M%S'): two digits each for the hour, the minute and the
\* second, so always six characters, with leading zeros
strftime_HMS(hhmmss) ==
    [k \in 1..6 |-> HexDigits[((hhmmss \div (10 ^ (6 - k))) % 10) + 1]]

\* run_now: runs the form as it stands, through an activation script written under the
\* form's name (Temp_<HHMMSS> when the name is empty, hhmmss being the time of day read);
\* the registry is not touched
run_now(form, hhmmss, io) ==
    LET app_name    == strip(form.name)
        venv_path   == strip(form.venv)
        script_path == strip(form.script)
        app_config  == [ name    |-> IF app_name = <<>>
                                     THEN <<"T","e","m","p","_">> \o strftime_HMS(hhmmss)
                                     ELSE app_name,
                         venv    |-> venv_path,
                         script  |-> script_path,
                         args    |-> strip(form.args),
                         workdir |-> strip(form.workdir),
                         created |-> clock ]
        a == create_activation_script(files, app_config, io.act_w)
    IN  IF venv_path = <<>> \/ script_path = <<>>
        THEN UNCHANGED vars
        ELSE /\ clock' = clock + 1
             /\ files' = a.fs
             /\ last' = [op |-> "run_now", name |-> app_config["name"],
                         out |-> IF a.raised THEN "raised" ELSE "ran",
                         how |-> IF a.raised THEN "none"
                                 ELSE run_script_file(a.fs, a.path, io.xterm_ok, io.bash_ok)]
             /\ UNCHANGED <<saved_apps, apps_file>>

\* The times of day run_now can read from datetime.now() are given as the number whose
\* decimal digits are HHMMSS (1 is 00:00:01, 235959 is 23:59:59): the time of day is the same
\* for two calls within one second and comes back every day, so it does not follow from the
\* order of the operations.
RunNow(F, IO) ==
    /\ clock < MaxClock
    /\ UNCHANGED <<jobs, saved_kind>>
    /\ \E form \in F, hhmmss \in {1, 235959}, io \in IO : run_now(form, hhmmss, io)

\* what run_selected_app finds when it looks for the launcher script of descriptor app
launcher_found(fs, app) ==
    IF "launcher_script" \notin DOMAIN app THEN "not recorded"
    ELSE IF path_exists(fs, app["launcher_script"]) THEN "on disk" ELSE "missing"

\* run_selected_app on the first descriptor named app_name, at index i; `last' keeps what the
\* handler found of the launcher script
run_selected_app(i, io) ==
    LET app   == SetKey(saved_apps[i], "last_run", clock)
        apps1 == [saved_apps EXCEPT ![i] = app]
        file1 == save_apps(apps_file, apps1, io.save_w)
        a     == create_activation_script(files, app, io.act_w)
        l     == create_xterm_launcher(a.fs, app, a.path, io.launch_w)
        app2  == with_scripts(app, a.path, l.path)
        apps2 == [saved_apps EXCEPT ![i] = app2]
    IN  /\ clock' = clock + 1
        /\ IF "launcher_script" \in DOMAIN app /\ path_exists(files, app["launcher_script"])
           THEN /\ saved_apps' = apps1
                /\ apps_file' = file1
                /\ files' = files
                /\ last' = [op |-> "run_selected", name |-> app["name"], out |-> "ran",
                            how |-> run_script_file(files, app["launcher_script"],
                                                    io.xterm_ok, io.bash_ok),
                            launcher |-> launcher_found(files, app)]
           ELSE IF a.raised \/ l.raised
           THEN /\ saved_apps' = apps1
                /\ apps_file' = file1
                /\ files' = IF a.raised THEN a.fs ELSE l.fs
                /\ last' = [op |-> "run_selected", name |-> app["name"], out |-> "raised",
                            how |-> "none", launcher |-> launcher_found(files, app)]
           ELSE /\ saved_apps' = apps2
                /\ apps_file' = save_apps(file1, apps2, io.save_w)
                /\ files' = l.fs
                /\ last' = [op |-> "run_selected", name |-> app["name"], out |-> "regenerated",
                            how |-> run_script_file(l.fs, l.path, io.xterm_ok, io.bash_ok),
                            launcher |-> launcher_found(files, app)]

\* the rows of the tree view name the descriptors of the registry; the handler acts on the
\* first descriptor that has the selected name
RunSelectedApp(IO) ==
    /\ clock < MaxClock
    /\ UNCHANGED <<jobs, saved_kind>>
    /\ \E k \in 1..Len(saved_apps), io \in IO :
        run_selected_app(existing_index(saved_apps, saved_apps[k]["name"]), io)

\* deletions that take every file under the directories of the generated files
delete_scripts_and_entries(fs, app, rm_ok) == <<>>

\* the file deletions of delete_selected_app for descriptor app: each file is removed when
\* its key is present and the file exists; a failing os.remove is passed over
delete_scripts(fs, app, rm_ok) ==
    LET fs1 == IF "activation_script" \in DOMAIN app
                  /\ path_exists(fs, app["activation_script"]) /\ rm_ok
                  /\ app["activation_script"] \in DOMAIN fs
               THEN remove_file(fs, app["activation_script"]) ELSE fs
    IN  IF "launcher_script" \in DOMAIN app
           /\ path_exists(fs1, app["launcher_script"]) /\ rm_ok
           /\ app["launcher_script"] \in DOMAIN fs1
        THEN remove_file(fs1, app["launcher_script"]) ELSE fs1

\* delete_selected_app on the selected name, confirmed or not
delete_selected_app(app_name, confirmed, io) ==
    LET i     == existing_index(saved_apps, app_name)
        apps1 == without_name(saved_apps, app_name)
    IN  IF ~confirmed
        THEN UNCHANGED vars
        ELSE /\ files' = delete_scripts(files, saved_apps[i], io.rm_ok)
             /\ saved_apps' = apps1
             /\ apps_file' = save_apps(apps_file, apps1, io.save_w)
             /\ last' = [op |-> "delete", name |-> app_name, out |-> "deleted", how |-> "none"]
             /\ clock' = clock + 1

DeleteSelectedApp(IO) ==
    /\ clock < MaxClock
    /\ UNCHANGED <<jobs, saved_kind>>
    /\ \E k \in 1..Len(saved_apps), confirmed \in BOOLEAN, io \in IO :
        delete_selected_app(saved_apps[k]["name"], confirmed, io)

\* ---------------------------------------------------------------- icons and desktop entries

\* the characters of ASCII that str.upper() changes, each with what it becomes
AsciiUpper ==
    rows("a      A      b      B      c      C      d      D      e      E      f      F      g      G      h      H      i      I      j      J      k      K      l      L      m      M      n      N      o      O      p      P      q      Q      r      R      s      S      t      T      u      U      v      V      w      W      x      X      y      Y      z      Z      ", 2)

\* The characters outside ASCII that str.upper() changes, each with what it becomes: the
\* small letters of the other scripts, and the characters that become two or three (U+00DF
\* becomes SS, the ligatures their letters)
ToUpper ==
    rows("U+00B5 U+039C               U+00DF S      S             U+00E0 U+00C0               U+00E1 U+00C1               U+00E2 U+00C2               U+00E3 U+00C3               U+00E4 U+00C4               U+00E5 U+00C5               U+00E6 U+00C6               U+00E7 U+00C7               U+00E8 U+00C8               U+00E9 U+00C9               U+00EA U+00CA               U+00EB U+00CB               U+00EC U+00CC               U+00ED U+00CD               U+00EE U+00CE               U+00EF U+00CF               U+00F0 U+00D0               U+00F1 U+00D1               U+00F2 U+00D2               U+00F3 U+00D3               U+00F4 U+00D4               U+00F5 U+00D5               U+00F6 U+00D6               U+00F8 U+00D8               U+00F9 U+00D9               U+00FA U+00DA               U+00FB U+00DB               U+00FC U+00DC               U+00FD U+00DD               U+00FE U+00DE               U+00FF U+0178               U+0101 U+0100               U+0103 U+0102               U+0105 U+0104               U+0107 U+0106               U+0109 U+0108               U+010B U+010A               U+010D U+010C               U+010F U+010E               U+0111 U+0110               U+0113 U+0112               U+0115 U+0114               U+0117 U+0116               U+0119 U+0118               U+011B U+011A               U+011D U+011C               U+011F U+011E               U+0121 U+0120               U+0123 U+0122               U+0125 U+0124               U+0127 U+0126               U+0129 U+0128               U+012B U+012A               U+012D U+012C               U+012F U+012E               U+0131 I                    U+0133 U+0132               U+0135 U+0134               U+0137 U+0136               U+013A U+0139               U+013C U+013B               U+013E U+013D               U+0140 U+013F               U+0142 U+0141               U+0144 U+0143               U+0146 U+0145               U+0148 U+0147               U+0149 U+02BC N             "
         \o "U+014B U+014A               U+014D U+014C               U+014F U+014E               U+0151 U+0150               U+0153 U+0152               U+0155 U+0154               U+0157 U+0156               U+0159 U+0158               U+015B U+015A               U+015D U+015C               U+015F U+015E               U+0161 U+0160               U+0163 U+0162               U+0165 U+0164               U+0167 U+0166               U+0169 U+0168               U+016B U+016A               U+016D U+016C               U+016F U+016E               U+0171 U+0170               U+0173 U+0172               U+0175 U+0174               U+0177 U+0176               U+017A U+0179               U+017C U+017B               U+017E U+017D               U+017F S                    U+0180 U+0243               U+0183 U+0182               U+0185 U+0184               U+0188 U+0187               U+018C U+018B               U+0192 U+0191               U+0195 U+01F6               U+0199 U+0198               U+019A U+023D               U+019E U+0220               U+01A1 U+01A0               U+01A3 U+01A2               U+01A5 U+01A4               U+01A8 U+01A7               U+01AD U+01AC               U+01B0 U+01AF               U+01B4 U+01B3               U+01B6 U+01B5               U+01B9 U+01B8               U+01BD U+01BC               U+01BF U+01F7               U+01C5 U+01C4               U+01C6 U+01C4               U+01C8 U+01C7               U+01C9 U+01C7               U+01CB U+01CA               U+01CC U+01CA               U+01CE U+01CD               U+01D0 U+01CF               U+01D2 U+01D1               U+01D4 U+01D3               U+01D6 U+01D5               U+01D8 U+01D7               U+01DA U+01D9               U+01DC U+01DB               U+01DD U+018E               U+01DF U+01DE               U+01E1 U+01E0               U+01E3 U+01E2               U+01E5 U+01E4               U+01E7 U+01E6               U+01E9 U+01E8               U+01EB U+01EA               "
         \o "U+01ED U+01EC               U+01EF U+01EE               U+01F0 J      U+030C        U+01F2 U+01F1               U+01F3 U+01F1               U+01F5 U+01F4               U+01F9 U+01F8               U+01FB U+01FA               U+01FD U+01FC               U+01FF U+01FE               U+0201 U+0200               U+0203 U+0202               U+0205 U+0204               U+0207 U+0206               U+0209 U+0208               U+020B U+020A               U+020D U+020C               U+020F U+020E               U+0211 U+0210               U+0213 U+0212               U+0215 U+0214               U+0217 U+0216               U+0219 U+0218               U+021B U+021A               U+021D U+021C               U+021F U+021E               U+0223 U+0222               U+0225 U+0224               U+0227 U+0226               U+0229 U+0228               U+022B U+022A               U+022D U+022C               U+022F U+022E               U+0231 U+0230               U+0233 U+0232               U+023C U+023B               U+023F U+2C7E               U+0240 U+2C7F               U+0242 U+0241               U+0247 U+0246               U+0249 U+0248               U+024B U+024A               U+024D U+024C               U+024F U+024E               U+0250 U+2C6F               U+0251 U+2C6D               U+0252 U+2C70               U+0253 U+0181               U+0254 U+0186               U+0256 U+0189               U+0257 U+018A               U+0259 U+018F               U+025B U+0190               U+025C U+A7AB               U+0260 U+0193               U+0261 U+A7AC               U+0263 U+0194               U+0265 U+A78D               U+0266 U+A7AA               U+0268 U+0197               U+0269 U+0196               U+026A U+A7AE               U+026B U+2C62               U+026C U+A7AD               U+026F U+019C               U+0271 U+2C6E               U+0272 U+019D               U+0275 U+019F               U+027D U+2C64               U+0280 U+01A6               "
         \o "U+0282 U+A7C5               U+0283 U+01A9               U+0287 U+A7B1               U+0288 U+01AE               U+0289 U+0244               U+028A U+01B1               U+028B U+01B2               U+028C U+0245               U+0292 U+01B7               U+029D U+A7B2               U+029E U+A7B0               U+0345 U+0399               U+0371 U+0370               U+0373 U+0372               U+0377 U+0376               U+037B U+03FD               U+037C U+03FE               U+037D U+03FF               U+0390 U+0399 U+0308 U+0301 U+03AC U+0386               U+03AD U+0388               U+03AE U+0389               U+03AF U+038A               U+03B0 U+03A5 U+0308 U+0301 U+03B1 U+0391               U+03B2 U+0392               U+03B3 U+0393               U+03B4 U+0394               U+03B5 U+0395               U+03B6 U+0396               U+03B7 U+0397               U+03B8 U+0398               U+03B9 U+0399               U+03BA U+039A               U+03BB U+039B               U+03BC U+039C               U+03BD U+039D               U+03BE U+039E               U+03BF U+039F               U+03C0 U+03A0               U+03C1 U+03A1               U+03C2 U+03A3               U+03C3 U+03A3               U+03C4 U+03A4               U+03C5 U+03A5               U+03C6 U+03A6               U+03C7 U+03A7               U+03C8 U+03A8               U+03C9 U+03A9               U+03CA U+03AA               U+03CB U+03AB               U+03CC U+038C               U+03CD U+038E               U+03CE U+038F               U+03D0 U+0392               U+03D1 U+0398               U+03D5 U+03A6               U+03D6 U+03A0               U+03D7 U+03CF               U+03D9 U+03D8               U+03DB U+03DA               U+03DD U+03DC               U+03DF U+03DE               U+03E1 U+03E0               U+03E3 U+03E2               U+03E5 U+03E4               U+03E7 U+03E6               U+03E9 U+03E8               U+03EB U+03EA               U+03ED U+03EC               "
         \o "U+03EF U+03EE               U+03F0 U+039A               U+03F1 U+03A1               U+03F2 U+03F9               U+03F3 U+037F               U+03F5 U+0395               U+03F8 U+03F7               U+03FB U+03FA               U+0430 U+0410               U+0431 U+0411               U+0432 U+0412               U+0433 U+0413               U+0434 U+0414               U+0435 U+0415               U+0436 U+0416               U+0437 U+0417               U+0438 U+0418               U+0439 U+0419               U+043A U+041A               U+043B U+041B               U+043C U+041C               U+043D U+041D               U+043E U+041E               U+043F U+041F               U+0440 U+0420               U+0441 U+0421               U+0442 U+0422               U+0443 U+0423               U+0444 U+0424               U+0445 U+0425               U+0446 U+0426               U+0447 U+0427               U+0448 U+0428               U+0449 U+0429               U+044A U+042A               U+044B U+042B               U+044C U+042C               U+044D U+042D               U+044E U+042E               U+044F U+042F               U+0450 U+0400               U+0451 U+0401               U+0452 U+0402               U+0453 U+0403               U+0454 U+0404               U+0455 U+0405               U+0456 U+0406               U+0457 U+0407               U+0458 U+0408               U+0459 U+0409               U+045A U+040A               U+045B U+040B               U+045C U+040C               U+045D U+040D               U+045E U+040E               U+045F U+040F               U+0461 U+0460               U+0463 U+0462               U+0465 U+0464               U+0467 U+0466               U+0469 U+0468               U+046B U+046A               U+046D U+046C               U+046F U+046E               U+0471 U+0470               U+0473 U+0472               U+0475 U+0474               U+0477 U+0476               U+0479 U+0478               U+047B U+047A               "
         \o "U+047D U+047C               U+047F U+047E               U+0481 U+0480               U+048B U+048A               U+048D U+048C               U+048F U+048E               U+0491 U+0490               U+0493 U+0492               U+0495 U+0494               U+0497 U+0496               U+0499 U+0498               U+049B U+049A               U+049D U+049C               U+049F U+049E               U+04A1 U+04A0               U+04A3 U+04A2               U+04A5 U+04A4               U+04A7 U+04A6               U+04A9 U+04A8               U+04AB U+04AA               U+04AD U+04AC               U+04AF U+04AE               U+04B1 U+04B0               U+04B3 U+04B2               U+04B5 U+04B4               U+04B7 U+04B6               U+04B9 U+04B8               U+04BB U+04BA               U+04BD U+04BC               U+04BF U+04BE               U+04C2 U+04C1               U+04C4 U+04C3               U+04C6 U+04C5               U+04C8 U+04C7               U+04CA U+04C9               U+04CC U+04CB               U+04CE U+04CD               U+04CF U+04C0               U+04D1 U+04D0               U+04D3 U+04D2               U+04D5 U+04D4               U+04D7 U+04D6               U+04D9 U+04D8               U+04DB U+04DA               U+04DD U+04DC               U+04DF U+04DE               U+04E1 U+04E0               U+04E3 U+04E2               U+04E5 U+04E4               U+04E7 U+04E6               U+04E9 U+04E8               U+04EB U+04EA               U+04ED U+04EC               U+04EF U+04EE               U+04F1 U+04F0               U+04F3 U+04F2               U+04F5 U+04F4               U+04F7 U+04F6               U+04F9 U+04F8               U+04FB U+04FA               U+04FD U+04FC               U+04FF U+04FE               U+0501 U+0500               U+0503 U+0502               U+0505 U+0504               U+0507 U+0506               U+0509 U+0508               U+050B U+050A               U+050D U+050C               U+050F U+050E               "
         \o "U+0511 U+0510               U+0513 U+0512               U+0515 U+0514               U+0517 U+0516               U+0519 U+0518               U+051B U+051A               U+051D U+051C               U+051F U+051E               U+0521 U+0520               U+0523 U+0522               U+0525 U+0524               U+0527 U+0526               U+0529 U+0528               U+052B U+052A               U+052D U+052C               U+052F U+052E               U+0561 U+0531               U+0562 U+0532               U+0563 U+0533               U+0564 U+0534               U+0565 U+0535               U+0566 U+0536               U+0567 U+0537               U+0568 U+0538               U+0569 U+0539               U+056A U+053A               U+056B U+053B               U+056C U+053C               U+056D U+053D               U+056E U+053E               U+056F U+053F               U+0570 U+0540               U+0571 U+0541               U+0572 U+0542               U+0573 U+0543               U+0574 U+0544               U+0575 U+0545               U+0576 U+0546               U+0577 U+0547               U+0578 U+0548               U+0579 U+0549               U+057A U+054A               U+057B U+054B               U+057C U+054C               U+057D U+054D               U+057E U+054E               U+057F U+054F               U+0580 U+0550               U+0581 U+0551               U+0582 U+0552               U+0583 U+0553               U+0584 U+0554               U+0585 U+0555               U+0586 U+0556               U+0587 U+0535 U+0552        U+10D0 U+1C90               U+10D1 U+1C91               U+10D2 U+1C92               U+10D3 U+1C93               U+10D4 U+1C94               U+10D5 U+1C95               U+10D6 U+1C96               U+10D7 U+1C97               U+10D8 U+1C98               U+10D9 U+1C99               U+10DA U+1C9A               U+10DB U+1C9B               U+10DC U+1C9C               U+10DD U+1C9D               U+10DE U+1C9E               "
         \o "U+10DF U+1C9F               U+10E0 U+1CA0               U+10E1 U+1CA1               U+10E2 U+1CA2               U+10E3 U+1CA3               U+10E4 U+1CA4               U+10E5 U+1CA5               U+10E6 U+1CA6               U+10E7 U+1CA7               U+10E8 U+1CA8               U+10E9 U+1CA9               U+10EA U+1CAA               U+10EB U+1CAB               U+10EC U+1CAC               U+10ED U+1CAD               U+10EE U+1CAE               U+10EF U+1CAF               U+10F0 U+1CB0               U+10F1 U+1CB1               U+10F2 U+1CB2               U+10F3 U+1CB3               U+10F4 U+1CB4               U+10F5 U+1CB5               U+10F6 U+1CB6               U+10F7 U+1CB7               U+10F8 U+1CB8               U+10F9 U+1CB9               U+10FA U+1CBA               U+10FD U+1CBD               U+10FE U+1CBE               U+10FF U+1CBF               U+13F8 U+13F0               U+13F9 U+13F1               U+13FA U+13F2               U+13FB U+13F3               U+13FC U+13F4               U+13FD U+13F5               U+1C80 U+0412               U+1C81 U+0414               U+1C82 U+041E               U+1C83 U+0421               U+1C84 U+0422               U+1C85 U+0422               U+1C86 U+042A               U+1C87 U+0462               U+1C88 U+A64A               U+1D79 U+A77D               U+1D7D U+2C63               U+1D8E U+A7C6               U+1E01 U+1E00               U+1E03 U+1E02               U+1E05 U+1E04               U+1E07 U+1E06               U+1E09 U+1E08               U+1E0B U+1E0A               U+1E0D U+1E0C               U+1E0F U+1E0E               U+1E11 U+1E10               U+1E13 U+1E12               U+1E15 U+1E14               U+1E17 U+1E16               U+1E19 U+1E18               U+1E1B U+1E1A               U+1E1D U+1E1C               U+1E1F U+1E1E               U+1E21 U+1E20               U+1E23 U+1E22               U+1E25 U+1E24               U+1E27 U+1E26               U+1E29 U+1E28               "
         \o "U+1E2B U+1E2A               U+1E2D U+1E2C               U+1E2F U+1E2E               U+1E31 U+1E30               U+1E33 U+1E32               U+1E35 U+1E34               U+1E37 U+1E36               U+1E39 U+1E38               U+1E3B U+1E3A               U+1E3D U+1E3C               U+1E3F U+1E3E               U+1E41 U+1E40               U+1E43 U+1E42               U+1E45 U+1E44               U+1E47 U+1E46               U+1E49 U+1E48               U+1E4B U+1E4A               U+1E4D U+1E4C               U+1E4F U+1E4E               U+1E51 U+1E50               U+1E53 U+1E52               U+1E55 U+1E54               U+1E57 U+1E56               U+1E59 U+1E58               U+1E5B U+1E5A               U+1E5D U+1E5C               U+1E5F U+1E5E               U+1E61 U+1E60               U+1E63 U+1E62               U+1E65 U+1E64               U+1E67 U+1E66               U+1E69 U+1E68               U+1E6B U+1E6A               U+1E6D U+1E6C               U+1E6F U+1E6E               U+1E71 U+1E70               U+1E73 U+1E72               U+1E75 U+1E74               U+1E77 U+1E76               U+1E79 U+1E78               U+1E7B U+1E7A               U+1E7D U+1E7C               U+1E7F U+1E7E               U+1E81 U+1E80               U+1E83 U+1E82               U+1E85 U+1E84               U+1E87 U+1E86               U+1E89 U+1E88               U+1E8B U+1E8A               U+1E8D U+1E8C               U+1E8F U+1E8E               U+1E91 U+1E90               U+1E93 U+1E92               U+1E95 U+1E94               U+1E96 H      U+0331        U+1E97 T      U+0308        U+1E98 W      U+030A        U+1E99 Y      U+030A        U+1E9A A      U+02BE        U+1E9B U+1E60               U+1EA1 U+1EA0               U+1EA3 U+1EA2               U+1EA5 U+1EA4               U+1EA7 U+1EA6               U+1EA9 U+1EA8               U+1EAB U+1EAA               U+1EAD U+1EAC               U+1EAF U+1EAE               U+1EB1 U+1EB0               U+1EB3 U+1EB2               "
         \o "U+1EB5 U+1EB4               U+1EB7 U+1EB6               U+1EB9 U+1EB8               U+1EBB U+1EBA               U+1EBD U+1EBC               U+1EBF U+1EBE               U+1EC1 U+1EC0               U+1EC3 U+1EC2               U+1EC5 U+1EC4               U+1EC7 U+1EC6               U+1EC9 U+1EC8               U+1ECB U+1ECA               U+1ECD U+1ECC               U+1ECF U+1ECE               U+1ED1 U+1ED0               U+1ED3 U+1ED2               U+1ED5 U+1ED4               U+1ED7 U+1ED6               U+1ED9 U+1ED8               U+1EDB U+1EDA               U+1EDD U+1EDC               U+1EDF U+1EDE               U+1EE1 U+1EE0               U+1EE3 U+1EE2               U+1EE5 U+1EE4               U+1EE7 U+1EE6               U+1EE9 U+1EE8               U+1EEB U+1EEA               U+1EED U+1EEC               U+1EEF U+1EEE               U+1EF1 U+1EF0               U+1EF3 U+1EF2               U+1EF5 U+1EF4               U+1EF7 U+1EF6               U+1EF9 U+1EF8               U+1EFB U+1EFA               U+1EFD U+1EFC               U+1EFF U+1EFE               U+1F00 U+1F08               U+1F01 U+1F09               U+1F02 U+1F0A               U+1F03 U+1F0B               U+1F04 U+1F0C               U+1F05 U+1F0D               U+1F06 U+1F0E               U+1F07 U+1F0F               U+1F10 U+1F18               U+1F11 U+1F19               U+1F12 U+1F1A               U+1F13 U+1F1B               U+1F14 U+1F1C               U+1F15 U+1F1D               U+1F20 U+1F28               U+1F21 U+1F29               U+1F22 U+1F2A               U+1F23 U+1F2B               U+1F24 U+1F2C               U+1F25 U+1F2D               U+1F26 U+1F2E               U+1F27 U+1F2F               U+1F30 U+1F38               U+1F31 U+1F39               U+1F32 U+1F3A               U+1F33 U+1F3B               U+1F34 U+1F3C               U+1F35 U+1F3D               U+1F36 U+1F3E               U+1F37 U+1F3F               U+1F40 U+1F48               U+1F41 U+1F49               "
         \o "U+1F42 U+1F4A               U+1F43 U+1F4B               U+1F44 U+1F4C               U+1F45 U+1F4D               U+1F50 U+03A5 U+0313        U+1F51 U+1F59               U+1F52 U+03A5 U+0313 U+0300 U+1F53 U+1F5B               U+1F54 U+03A5 U+0313 U+0301 U+1F55 U+1F5D               U+1F56 U+03A5 U+0313 U+0342 U+1F57 U+1F5F               U+1F60 U+1F68               U+1F61 U+1F69               U+1F62 U+1F6A               U+1F63 U+1F6B               U+1F64 U+1F6C               U+1F65 U+1F6D               U+1F66 U+1F6E               U+1F67 U+1F6F               U+1F70 U+1FBA               U+1F71 U+1FBB               U+1F72 U+1FC8               U+1F73 U+1FC9               U+1F74 U+1FCA               U+1F75 U+1FCB               U+1F76 U+1FDA               U+1F77 U+1FDB               U+1F78 U+1FF8               U+1F79 U+1FF9               U+1F7A U+1FEA               U+1F7B U+1FEB               U+1F7C U+1FFA               U+1F7D U+1FFB               U+1F80 U+1F08 U+0399        U+1F81 U+1F09 U+0399        U+1F82 U+1F0A U+0399        U+1F83 U+1F0B U+0399        U+1F84 U+1F0C U+0399        U+1F85 U+1F0D U+0399        U+1F86 U+1F0E U+0399        U+1F87 U+1F0F U+0399        U+1F88 U+1F08 U+0399        U+1F89 U+1F09 U+0399        U+1F8A U+1F0A U+0399        U+1F8B U+1F0B U+0399        U+1F8C U+1F0C U+0399        U+1F8D U+1F0D U+0399        U+1F8E U+1F0E U+0399        U+1F8F U+1F0F U+0399        U+1F90 U+1F28 U+0399        U+1F91 U+1F29 U+0399        U+1F92 U+1F2A U+0399        U+1F93 U+1F2B U+0399        U+1F94 U+1F2C U+0399        U+1F95 U+1F2D U+0399        U+1F96 U+1F2E U+0399        U+1F97 U+1F2F U+0399        U+1F98 U+1F28 U+0399        U+1F99 U+1F29 U+0399        U+1F9A U+1F2A U+0399        U+1F9B U+1F2B U+0399        U+1F9C U+1F2C U+0399        U+1F9D U+1F2D U+0399        U+1F9E U+1F2E U+0399        U+1F9F U+1F2F U+0399        U+1FA0 U+1F68 U+0399        U+1FA1 U+1F69 U+0399        U+1FA2 U+1F6A U+0399        U+1FA3 U+1F6B U+0399        "
         \o "U+1FA4 U+1F6C U+0399        U+1FA5 U+1F6D U+0399        U+1FA6 U+1F6E U+0399        U+1FA7 U+1F6F U+0399        U+1FA8 U+1F68 U+0399        U+1FA9 U+1F69 U+0399        U+1FAA U+1F6A U+0399        U+1FAB U+1F6B U+0399        U+1FAC U+1F6C U+0399        U+1FAD U+1F6D U+0399        U+1FAE U+1F6E U+0399        U+1FAF U+1F6F U+0399        U+1FB0 U+1FB8               U+1FB1 U+1FB9               U+1FB2 U+1FBA U+0399        U+1FB3 U+0391 U+0399        U+1FB4 U+0386 U+0399        U+1FB6 U+0391 U+0342        U+1FB7 U+0391 U+0342 U+0399 U+1FBC U+0391 U+0399        U+1FBE U+0399               U+1FC2 U+1FCA U+0399        U+1FC3 U+0397 U+0399        U+1FC4 U+0389 U+0399        U+1FC6 U+0397 U+0342        U+1FC7 U+0397 U+0342 U+0399 U+1FCC U+0397 U+0399        U+1FD0 U+1FD8               U+1FD1 U+1FD9               U+1FD2 U+0399 U+0308 U+0300 U+1FD3 U+0399 U+0308 U+0301 U+1FD6 U+0399 U+0342        U+1FD7 U+0399 U+0308 U+0342 U+1FE0 U+1FE8               U+1FE1 U+1FE9               U+1FE2 U+03A5 U+0308 U+0300 U+1FE3 U+03A5 U+0308 U+0301 U+1FE4 U+03A1 U+0313        U+1FE5 U+1FEC               U+1FE6 U+03A5 U+0342        U+1FE7 U+03A5 U+0308 U+0342 U+1FF2 U+1FFA U+0399        U+1FF3 U+03A9 U+0399        U+1FF4 U+038F U+0399        U+1FF6 U+03A9 U+0342        U+1FF7 U+03A9 U+0342 U+0399 U+1FFC U+03A9 U+0399        U+214E U+2132               U+2170 U+2160               U+2171 U+2161               U+2172 U+2162               U+2173 U+2163               U+2174 U+2164               U+2175 U+2165               U+2176 U+2166               U+2177 U+2167               U+2178 U+2168               U+2179 U+2169               U+217A U+216A               U+217B U+216B               U+217C U+216C               U+217D U+216D               U+217E U+216E               U+217F U+216F               U+2184 U+2183               U+24D0 U+24B6               U+24D1 U+24B7               U+24D2 U+24B8               U+24D3 U+24B9               U+24D4 U+24BA               "
         \o "U+24D5 U+24BB               U+24D6 U+24BC               U+24D7 U+24BD               U+24D8 U+24BE               U+24D9 U+24BF               U+24DA U+24C0               U+24DB U+24C1               U+24DC U+24C2               U+24DD U+24C3               U+24DE U+24C4               U+24DF U+24C5               U+24E0 U+24C6               U+24E1 U+24C7               U+24E2 U+24C8               U+24E3 U+24C9               U+24E4 U+24CA               U+24E5 U+24CB               U+24E6 U+24CC               U+24E7 U+24CD               U+24E8 U+24CE               U+24E9 U+24CF               U+2C30 U+2C00               U+2C31 U+2C01               U+2C32 U+2C02               U+2C33 U+2C03               U+2C34 U+2C04               U+2C35 U+2C05               U+2C36 U+2C06               U+2C37 U+2C07               U+2C38 U+2C08               U+2C39 U+2C09               U+2C3A U+2C0A               U+2C3B U+2C0B               U+2C3C U+2C0C               U+2C3D U+2C0D               U+2C3E U+2C0E               U+2C3F U+2C0F               U+2C40 U+2C10               U+2C41 U+2C11               U+2C42 U+2C12               U+2C43 U+2C13               U+2C44 U+2C14               U+2C45 U+2C15               U+2C46 U+2C16               U+2C47 U+2C17               U+2C48 U+2C18               U+2C49 U+2C19               U+2C4A U+2C1A               U+2C4B U+2C1B               U+2C4C U+2C1C               U+2C4D U+2C1D               U+2C4E U+2C1E               U+2C4F U+2C1F               U+2C50 U+2C20               U+2C51 U+2C21               U+2C52 U+2C22               U+2C53 U+2C23               U+2C54 U+2C24               U+2C55 U+2C25               U+2C56 U+2C26               U+2C57 U+2C27               U+2C58 U+2C28               U+2C59 U+2C29               U+2C5A U+2C2A               U+2C5B U+2C2B               U+2C5C U+2C2C               U+2C5D U+2C2D               U+2C5E U+2C2E               U+2C5F U+2C2F               U+2C61 U+2C60               "
         \o "U+2C65 U+023A               U+2C66 U+023E               U+2C68 U+2C67               U+2C6A U+2C69               U+2C6C U+2C6B               U+2C73 U+2C72               U+2C76 U+2C75               U+2C81 U+2C80               U+2C83 U+2C82               U+2C85 U+2C84               U+2C87 U+2C86               U+2C89 U+2C88               U+2C8B U+2C8A               U+2C8D U+2C8C               U+2C8F U+2C8E               U+2C91 U+2C90               U+2C93 U+2C92               U+2C95 U+2C94               U+2C97 U+2C96               U+2C99 U+2C98               U+2C9B U+2C9A               U+2C9D U+2C9C               U+2C9F U+2C9E               U+2CA1 U+2CA0               U+2CA3 U+2CA2               U+2CA5 U+2CA4               U+2CA7 U+2CA6               U+2CA9 U+2CA8               U+2CAB U+2CAA               U+2CAD U+2CAC               U+2CAF U+2CAE               U+2CB1 U+2CB0               U+2CB3 U+2CB2               U+2CB5 U+2CB4               U+2CB7 U+2CB6               U+2CB9 U+2CB8               U+2CBB U+2CBA               U+2CBD U+2CBC               U+2CBF U+2CBE               U+2CC1 U+2CC0               U+2CC3 U+2CC2               U+2CC5 U+2CC4               U+2CC7 U+2CC6               U+2CC9 U+2CC8               U+2CCB U+2CCA               U+2CCD U+2CCC               U+2CCF U+2CCE               U+2CD1 U+2CD0               U+2CD3 U+2CD2               U+2CD5 U+2CD4               U+2CD7 U+2CD6               U+2CD9 U+2CD8               U+2CDB U+2CDA               U+2CDD U+2CDC               U+2CDF U+2CDE               U+2CE1 U+2CE0               U+2CE3 U+2CE2               U+2CEC U+2CEB               U+2CEE U+2CED               U+2CF3 U+2CF2               U+2D00 U+10A0               U+2D01 U+10A1               U+2D02 U+10A2               U+2D03 U+10A3               U+2D04 U+10A4               U+2D05 U+10A5               U+2D06 U+10A6               U+2D07 U+10A7               U+2D08 U+10A8               U+2D09 U+10A9               "
         \o "U+2D0A U+10AA               U+2D0B U+10AB               U+2D0C U+10AC               U+2D0D U+10AD               U+2D0E U+10AE               U+2D0F U+10AF               U+2D10 U+10B0               U+2D11 U+10B1               U+2D12 U+10B2               U+2D13 U+10B3               U+2D14 U+10B4               U+2D15 U+10B5               U+2D16 U+10B6               U+2D17 U+10B7               U+2D18 U+10B8               U+2D19 U+10B9               U+2D1A U+10BA               U+2D1B U+10BB               U+2D1C U+10BC               U+2D1D U+10BD               U+2D1E U+10BE               U+2D1F U+10BF               U+2D20 U+10C0               U+2D21 U+10C1               U+2D22 U+10C2               U+2D23 U+10C3               U+2D24 U+10C4               U+2D25 U+10C5               U+2D27 U+10C7               U+2D2D U+10CD               U+A641 U+A640               U+A643 U+A642               U+A645 U+A644               U+A647 U+A646               U+A649 U+A648               U+A64B U+A64A               U+A64D U+A64C               U+A64F U+A64E               U+A651 U+A650               U+A653 U+A652               U+A655 U+A654               U+A657 U+A656               U+A659 U+A658               U+A65B U+A65A               U+A65D U+A65C               U+A65F U+A65E               U+A661 U+A660               U+A663 U+A662               U+A665 U+A664               U+A667 U+A666               U+A669 U+A668               U+A66B U+A66A               U+A66D U+A66C               U+A681 U+A680               U+A683 U+A682               U+A685 U+A684               U+A687 U+A686               U+A689 U+A688               U+A68B U+A68A               U+A68D U+A68C               U+A68F U+A68E               U+A691 U+A690               U+A693 U+A692               U+A695 U+A694               U+A697 U+A696               U+A699 U+A698               U+A69B U+A69A               U+A723 U+A722               U+A725 U+A724               U+A727 U+A726               "
         \o "U+A729 U+A728               U+A72B U+A72A               U+A72D U+A72C               U+A72F U+A72E               U+A733 U+A732               U+A735 U+A734               U+A737 U+A736               U+A739 U+A738               U+A73B U+A73A               U+A73D U+A73C               U+A73F U+A73E               U+A741 U+A740               U+A743 U+A742               U+A745 U+A744               U+A747 U+A746               U+A749 U+A748               U+A74B U+A74A               U+A74D U+A74C               U+A74F U+A74E               U+A751 U+A750               U+A753 U+A752               U+A755 U+A754               U+A757 U+A756               U+A759 U+A758               U+A75B U+A75A               U+A75D U+A75C               U+A75F U+A75E               U+A761 U+A760               U+A763 U+A762               U+A765 U+A764               U+A767 U+A766               U+A769 U+A768               U+A76B U+A76A               U+A76D U+A76C               U+A76F U+A76E               U+A77A U+A779               U+A77C U+A77B               U+A77F U+A77E               U+A781 U+A780               U+A783 U+A782               U+A785 U+A784               U+A787 U+A786               U+A78C U+A78B               U+A791 U+A790               U+A793 U+A792               U+A794 U+A7C4               U+A797 U+A796               U+A799 U+A798               U+A79B U+A79A               U+A79D U+A79C               U+A79F U+A79E               U+A7A1 U+A7A0               U+A7A3 U+A7A2               U+A7A5 U+A7A4               U+A7A7 U+A7A6               U+A7A9 U+A7A8               U+A7B5 U+A7B4               U+A7B7 U+A7B6               U+A7B9 U+A7B8               U+A7BB U+A7BA               U+A7BD U+A7BC               U+A7BF U+A7BE               U+A7C1 U+A7C0               U+A7C3 U+A7C2               U+A7C8 U+A7C7               U+A7CA U+A7C9               U+A7D1 U+A7D0               U+A7D7 U+A7D6               U+A7D9 U+A7D8               U+A7F6 U+A7F5               "
         \o "U+AB53 U+A7B3               U+AB70 U+13A0               U+AB71 U+13A1               U+AB72 U+13A2               U+AB73 U+13A3               U+AB74 U+13A4               U+AB75 U+13A5               U+AB76 U+13A6               U+AB77 U+13A7               U+AB78 U+13A8               U+AB79 U+13A9               U+AB7A U+13AA               U+AB7B U+13AB               U+AB7C U+13AC               U+AB7D U+13AD               U+AB7E U+13AE               U+AB7F U+13AF               U+AB80 U+13B0               U+AB81 U+13B1               U+AB82 U+13B2               U+AB83 U+13B3               U+AB84 U+13B4               U+AB85 U+13B5               U+AB86 U+13B6               U+AB87 U+13B7               U+AB88 U+13B8               U+AB89 U+13B9               U+AB8A U+13BA               U+AB8B U+13BB               U+AB8C U+13BC               U+AB8D U+13BD               U+AB8E U+13BE               U+AB8F U+13BF               U+AB90 U+13C0               U+AB91 U+13C1               U+AB92 U+13C2               U+AB93 U+13C3               U+AB94 U+13C4               U+AB95 U+13C5               U+AB96 U+13C6               U+AB97 U+13C7               U+AB98 U+13C8               U+AB99 U+13C9               U+AB9A U+13CA               U+AB9B U+13CB               U+AB9C U+13CC               U+AB9D U+13CD               U+AB9E U+13CE               U+AB9F U+13CF               U+ABA0 U+13D0               U+ABA1 U+13D1               U+ABA2 U+13D2               U+ABA3 U+13D3               U+ABA4 U+13D4               U+ABA5 U+13D5               U+ABA6 U+13D6               U+ABA7 U+13D7               U+ABA8 U+13D8               U+ABA9 U+13D9               U+ABAA U+13DA               U+ABAB U+13DB               U+ABAC U+13DC               U+ABAD U+13DD               U+ABAE U+13DE               U+ABAF U+13DF               U+ABB0 U+13E0               U+ABB1 U+13E1               U+ABB2 U+13E2               U+ABB3 U+13E3               U+ABB4 U+13E4               "
         \o "U+ABB5 U+13E5               U+ABB6 U+13E6               U+ABB7 U+13E7               U+ABB8 U+13E8               U+ABB9 U+13E9               U+ABBA U+13EA               U+ABBB U+13EB               U+ABBC U+13EC               U+ABBD U+13ED               U+ABBE U+13EE               U+ABBF U+13EF               U+FB00 F      F             U+FB01 F      I             U+FB02 F      L             U+FB03 F      F      I      U+FB04 F      F      L      U+FB05 S      T             U+FB06 S      T             U+FB13 U+0544 U+0546        U+FB14 U+0544 U+0535        U+FB15 U+0544 U+053B        U+FB16 U+054E U+0546        U+FB17 U+0544 U+053D        U+FF41 U+FF21               U+FF42 U+FF22               U+FF43 U+FF23               U+FF44 U+FF24               U+FF45 U+FF25               U+FF46 U+FF26               U+FF47 U+FF27               U+FF48 U+FF28               U+FF49 U+FF29               U+FF4A U+FF2A               U+FF4B U+FF2B               U+FF4C U+FF2C               U+FF4D U+FF2D               U+FF4E U+FF2E               U+FF4F U+FF2F               U+FF50 U+FF30               U+FF51 U+FF31               U+FF52 U+FF32               U+FF53 U+FF33               U+FF54 U+FF34               U+FF55 U+FF35               U+FF56 U+FF36               U+FF57 U+FF37               U+FF58 U+FF38               U+FF59 U+FF39               U+FF5A U+FF3A               U+10428U+10400              U+10429U+10401              U+1042AU+10402              U+1042BU+10403              U+1042CU+10404              U+1042DU+10405              U+1042EU+10406              U+1042FU+10407              U+10430U+10408              U+10431U+10409              U+10432U+1040A              U+10433U+1040B              U+10434U+1040C              U+10435U+1040D              U+10436U+1040E              U+10437U+1040F              U+10438U+10410              U+10439U+10411              U+1043AU+10412              U+1043BU+10413              U+1043CU+10414              "
         \o "U+1043DU+10415              U+1043EU+10416              U+1043FU+10417              U+10440U+10418              U+10441U+10419              U+10442U+1041A              U+10443U+1041B              U+10444U+1041C              U+10445U+1041D              U+10446U+1041E              U+10447U+1041F              U+10448U+10420              U+10449U+10421              U+1044AU+10422              U+1044BU+10423              U+1044CU+10424              U+1044DU+10425              U+1044EU+10426              U+1044FU+10427              U+104D8U+104B0              U+104D9U+104B1              U+104DAU+104B2              U+104DBU+104B3              U+104DCU+104B4              U+104DDU+104B5              U+104DEU+104B6              U+104DFU+104B7              U+104E0U+104B8              U+104E1U+104B9              U+104E2U+104BA              U+104E3U+104BB              U+104E4U+104BC              U+104E5U+104BD              U+104E6U+104BE              U+104E7U+104BF              U+104E8U+104C0              U+104E9U+104C1              U+104EAU+104C2              U+104EBU+104C3              U+104ECU+104C4              U+104EDU+104C5              U+104EEU+104C6              U+104EFU+104C7              U+104F0U+104C8              U+104F1U+104C9              U+104F2U+104CA              U+104F3U+104CB              U+104F4U+104CC              U+104F5U+104CD              U+104F6U+104CE              U+104F7U+104CF              U+104F8U+104D0              U+104F9U+104D1              U+104FAU+104D2              U+104FBU+104D3              U+10597U+10570              U+10598U+10571              U+10599U+10572              U+1059AU+10573              U+1059BU+10574              U+1059CU+10575              U+1059DU+10576              U+1059EU+10577              U+1059FU+10578              U+105A0U+10579              U+105A1U+1057A              U+105A3U+1057C              U+105A4U+1057D              U+105A5U+1057E              U+105A6U+1057F              "
         \o "U+105A7U+10580              U+105A8U+10581              U+105A9U+10582              U+105AAU+10583              U+105ABU+10584              U+105ACU+10585              U+105ADU+10586              U+105AEU+10587              U+105AFU+10588              U+105B0U+10589              U+105B1U+1058A              U+105B3U+1058C              U+105B4U+1058D              U+105B5U+1058E              U+105B6U+1058F              U+105B7U+10590              U+105B8U+10591              U+105B9U+10592              U+105BBU+10594              U+105BCU+10595              U+10CC0U+10C80              U+10CC1U+10C81              U+10CC2U+10C82              U+10CC3U+10C83              U+10CC4U+10C84              U+10CC5U+10C85              U+10CC6U+10C86              U+10CC7U+10C87              U+10CC8U+10C88              U+10CC9U+10C89              U+10CCAU+10C8A              U+10CCBU+10C8B              U+10CCCU+10C8C              U+10CCDU+10C8D              U+10CCEU+10C8E              U+10CCFU+10C8F              U+10CD0U+10C90              U+10CD1U+10C91              U+10CD2U+10C92              U+10CD3U+10C93              U+10CD4U+10C94              U+10CD5U+10C95              U+10CD6U+10C96              U+10CD7U+10C97              U+10CD8U+10C98              U+10CD9U+10C99              U+10CDAU+10C9A              U+10CDBU+10C9B              U+10CDCU+10C9C              U+10CDDU+10C9D              U+10CDEU+10C9E              U+10CDFU+10C9F              U+10CE0U+10CA0              U+10CE1U+10CA1              U+10CE2U+10CA2              U+10CE3U+10CA3              U+10CE4U+10CA4              U+10CE5U+10CA5              U+10CE6U+10CA6              U+10CE7U+10CA7              U+10CE8U+10CA8              U+10CE9U+10CA9              U+10CEAU+10CAA              U+10CEBU+10CAB              U+10CECU+10CAC              U+10CEDU+10CAD              U+10CEEU+10CAE              U+10CEFU+10CAF              U+10CF0U+10CB0              U+10CF1U+10CB1              "
         \o "U+10CF2U+10CB2              U+118C0U+118A0              U+118C1U+118A1              U+118C2U+118A2              U+118C3U+118A3              U+118C4U+118A4              U+118C5U+118A5              U+118C6U+118A6              U+118C7U+118A7              U+118C8U+118A8              U+118C9U+118A9              U+118CAU+118AA              U+118CBU+118AB              U+118CCU+118AC              U+118CDU+118AD              U+118CEU+118AE              U+118CFU+118AF              U+118D0U+118B0              U+118D1U+118B1              U+118D2U+118B2              U+118D3U+118B3              U+118D4U+118B4              U+118D5U+118B5              U+118D6U+118B6              U+118D7U+118B7              U+118D8U+118B8              U+118D9U+118B9              U+118DAU+118BA              U+118DBU+118BB              U+118DCU+118BC              U+118DDU+118BD              U+118DEU+118BE              U+118DFU+118BF              U+16E60U+16E40              U+16E61U+16E41              U+16E62U+16E42              U+16E63U+16E43              U+16E64U+16E44              U+16E65U+16E45              U+16E66U+16E46              U+16E67U+16E47              U+16E68U+16E48              U+16E69U+16E49              U+16E6AU+16E4A              U+16E6BU+16E4B              U+16E6CU+16E4C              U+16E6DU+16E4D              U+16E6EU+16E4E              U+16E6FU+16E4F              U+16E70U+16E50              U+16E71U+16E51              U+16E72U+16E52              U+16E73U+16E53              U+16E74U+16E54              U+16E75U+16E55              U+16E76U+16E56              U+16E77U+16E57              U+16E78U+16E58              U+16E79U+16E59              U+16E7AU+16E5A              U+16E7BU+16E5B              U+16E7CU+16E5C              U+16E7DU+16E5D              U+16E7EU+16E5E              U+16E7FU+16E5F              U+1E922U+1E900              U+1E923U+1E901              U+1E924U+1E902              U+1E925U+1E903              U+1E926U+1E904              "
         \o "U+1E927U+1E905              U+1E928U+1E906              U+1E929U+1E907              U+1E92AU+1E908              U+1E92BU+1E909              U+1E92CU+1E90A              U+1E92DU+1E90B              U+1E92EU+1E90C              U+1E92FU+1E90D              U+1E930U+1E90E              U+1E931U+1E90F              U+1E932U+1E910              U+1E933U+1E911              U+1E934U+1E912              U+1E935U+1E913              U+1E936U+1E914              U+1E937U+1E915              U+1E938U+1E916              U+1E939U+1E917              U+1E93AU+1E918              U+1E93BU+1E919              U+1E93CU+1E91A              U+1E93DU+1E91B              U+1E93EU+1E91C              U+1E93FU+1E91D              U+1E940U+1E91E              U+1E941U+1E91F              U+1E942U+1E920              U+1E943U+1E921              ", 4)

\* c.upper() for one character c: a text of one character, or of two or three
upper_char(c) == convert(c, IF Len(c) = 1 THEN AsciiUpper ELSE ToUpper)

\* str.upper()
upper(s) == concat([i \in 1..Len(s) |-> upper_char(s[i])])

\* the first word of s, which starts with a non-blank character
RECURSIVE first_word(_)
first_word(s) == IF s = <<>> \/ Head(s) \in Whitespace THEN <<>>
                 ELSE <<Head(s)>> \o first_word(Tail(s))

\* str.split(): the words of s between runs of whitespace
RECURSIVE split(_)
split(s) ==
    LET t == lstrip_chars(s, Whitespace)
        w == first_word(t)
    IN  IF t = <<>> THEN <<>>
        ELSE <<w>> \o split(SubSeq(t, Len(w) + 1, Len(t)))

\* initials taken from the first word alone
get_initials_first_word(text) ==
    LET words == split(strip(text))
    IN  IF words = <<>> THEN <<"?">>
        ELSE upper(SubSeq(words[1], 1, IF Len(words[1]) < 2 THEN Len(words[1]) ELSE 2))

\* IconGenerator.get_initials
get_initials(text) ==
    LET words == split(strip(text))
    IN  IF words = <<>> THEN <<"?">>
        ELSE IF Len(words) = 1
             THEN upper(SubSeq(words[1], 1, IF Len(words[1]) < 2 THEN Len(words[1]) ELSE 2))
             ELSE upper(<<words[1][1], words[2][1]>>)

\* the hex digits of either case with their values (int() reads the decimal digits of other
\* scripts too; the texts here hold none)
HexValues ==
    [c \in {HexDigits[v] : v \in 1..16} \cup {"A", "B", "C", "D", "E", "F"} |->
        (CHOOSE v \in 1..16 : <<HexDigits[v]>> = lower_char(c)) - 1]

IsHexDigit(c) == c \in DOMAIN HexValues

\* the value of a hex digit of either case
HexValue(c) == HexValues[c]

\* s[i:j] for 0 <= i <= j, counted from 0 as Python does; a slice past the end is cut short
Slice(s, i, j) == SubSeq(s, i + 1, IF j < Len(s) THEN j ELSE Len(s))

\* int(u, 16) for a text u of at most two characters without whitespace around it: one or
\* two hex digits, or a sign and one hex digit; anything else raises ValueError (ok = FALSE)
int16_stripped(u) ==
    IF Len(u) = 1 /\ IsHexDigit(u[1])
    THEN [ok |-> TRUE, value |-> HexValue(u[1])]
    ELSE IF Len(u) = 2 /\ IsHexDigit(u[1]) /\ IsHexDigit(u[2])
    THEN [ok |-> TRUE, value |-> 16 * HexValue(u[1]) + HexValue(u[2])]
    ELSE IF Len(u) = 2 /\ u[1] = "+" /\ IsHexDigit(u[2])
    THEN [ok |-> TRUE, value |-> HexValue(u[2])]
    ELSE IF Len(u) = 2 /\ u[1] = "-" /\ IsHexDigit(u[2])
    THEN [ok |-> TRUE, value |-> 0 - HexValue(u[2])]
    ELSE [ok |-> FALSE, value |-> 0]

\* int(t, 16) for a text of at most two characters: whitespace around the number is dropped
int16(t) == int16_stripped(int_strip(t))

\* tuple(...) of the three channels int() gave, unless it raised for one of them
rgb_tuple(r, g, b) ==
    IF r.ok /\ g.ok /\ b.ok THEN [ok |-> TRUE, rgb |-> <<r.value, g.value, b.value>>]
    ELSE [ok |-> FALSE, rgb |-> <<>>]

\* IconGenerator.hex_to_rgb: the tuple, or ok = FALSE when int() raised ValueError;
\* lstrip('#') removes every leading '#'
hex_to_rgb(hex_color) ==
    LET h == lstrip_chars(hex_color, {"#"})
    IN  rgb_tuple(int16(Slice(h, 0, 2)), int16(Slice(h, 2, 4)), int16(Slice(h, 4, 6)))

\* the fallback icon name of create_desktop_file
DefaultIcon == Lit("application-x-python")

\* value or default, for an empty value
or_default(value, default) == IF value = <<>> THEN default ELSE value

\* str(flag).lower()
bool_text(flag) == IF flag THEN Lit("true") ELSE Lit("false")

\* the picture generate_icon draws: the initials and what it is drawn from, the colors as
\* (R, G, B)
icon_content(app_name, bg_color, text_color, bold, with_gradient) ==
    << Lit("PNG 256x256"), get_initials(app_name), bg_color, text_color,
       bool_text(bold), bool_text(with_gradient) >>

\* IconGenerator.DEFAULT_BG_COLOR and DEFAULT_TEXT_COLOR
DEFAULT_BG_COLOR   == <<66, 133, 244>>
DEFAULT_TEXT_COLOR == <<255, 255, 255>>

\* a color argument of generate_icon: None, a text or a tuple (R, G, B)
ColorNone        == [type |-> "none", value |-> <<>>]
ColorText(text)  == [type |-> "str", value |-> text]
ColorTuple(rgb)  == [type |-> "tuple", value |-> rgb]

\* hex_to_rgb of the two colors create_desktop_file falls back to, worked out once
DefaultColors ==
    [t \in {<<"#","4","2","8","5","F","4">>, <<"#","F","F","F","F","F","F">>} |-> hex_to_rgb(t)]

\* how generate_icon reads a color argument: the default for None, hex_to_rgb for a text
\* (ok = FALSE when it raises; looked up where it was worked out before), a tuple as it is
color_input(color, default) ==
    CASE color.type = "none" -> [ok |-> TRUE, rgb |-> default]
      [] color.type = "str"  -> IF color.value \in DOMAIN DefaultColors
                                THEN DefaultColors[color.value]
                                ELSE hex_to_rgb(color.value)
      [] OTHER               -> [ok |-> TRUE, rgb |-> color.value]

\* the end of generate_icon: with an output_path the picture is saved there and the path is
\* returned, without one (None or '') nothing is written and the picture is returned
save_icon(fs, img, output_path) ==
    IF output_path # <<>>
    THEN [fs |-> write_file(fs, output_path, img), result |-> output_path, raised |-> FALSE]
    ELSE [fs |-> fs, result |-> img, raised |-> FALSE]

\* max(r, g, b)
Max3(rgb) == IF rgb[1] >= rgb[2] /\ rgb[1] >= rgb[3] THEN rgb[1]
             ELSE IF rgb[2] >= rgb[3] THEN rgb[2] ELSE rgb[3]

\* colorsys.rgb_to_hsv, which lighten_color and darken_color start with, divides by the
\* largest channel unless the three channels are equal: it raises ZeroDivisionError for a
\* color whose largest channel is 0 and that has a negative channel
rgb_to_hsv_raises(rgb) ==
    Max3(rgb) = 0 /\ (rgb[1] < 0 \/ rgb[2] < 0 \/ rgb[3] < 0)

\* generate_icon after its color inputs were read as bg and tx: it raises when hex_to_rgb
\* raised for one of them, and when darken_color raises for the background, of which it
\* takes the border's color (and the gradient's) before anything is saved; otherwise it
\* draws and saves the picture
draw_icon(fs, app_name, bg, tx, bold, output_path, with_gradient) ==
    IF ~bg.ok \/ ~tx.ok
    THEN [fs |-> fs, result |-> <<>>, raised |-> TRUE]
    ELSE IF rgb_to_hsv_raises(bg.rgb)
    THEN [fs |-> fs, result |-> <<>>, raised |-> TRUE]
    ELSE save_icon(fs, icon_content(app_name, bg.rgb, tx.rgb, bold, with_gradient),
                   output_path)

\* IconGenerator.generate_icon: the files afterwards, what is returned and whether an
\* exception left the function
generate_icon(fs, app_name, bg_color, text_color, bold, output_path, with_gradient) ==
    draw_icon(fs, app_name, color_input(bg_color, DEFAULT_BG_COLOR),
              color_input(text_color, DEFAULT_TEXT_COLOR), bold, output_path, with_gradient)

\* an icon step that names the generated icon's path whatever was chosen, rendered or not
resolve_icon_always_generated(fs, app_config, opts, render_ok) ==
    [fs |-> fs, app |-> app_config, icon |-> get_icon_path(app_config["name"])]

\* the icon step for icon_type "generate", g being what the call of generate_icon gave: the
\* descriptor gets the icon's path and settings, and when the call raised (a color that is
\* no hex color, a renderer that fails) the exception is caught and the default icon stays
generated_icon(fs, app_config, opts, render_ok, bg_color, text_color, icon_path, g) ==
    IF render_ok /\ ~g.raised
    THEN [ fs   |-> g.fs,
           app  |-> SetKey(SetKey(SetKey(app_config, "icon_path", icon_path),
                                  "icon_type", Lit("generated")),
                           "icon_settings",
                           [bg_color |-> bg_color, text_color |-> text_color,
                            bold |-> opts.bold, gradient |-> opts.gradient]),
           icon |-> icon_path ]
    ELSE [fs |-> fs, app |-> app_config, icon |-> DefaultIcon]

\* the icon step of create_desktop_file: the files and the descriptor afterwards and the
\* value of the Icon field
resolve_icon(fs, app_config, opts, render_ok) ==
    LET icon_type == or_default(opts.icon_type, Lit("generate"))
        bg_color  == or_default(opts.bg_color, <<"#","4","2","8","5","F","4">>)
        text_color == or_default(opts.text_color, <<"#","F","F","F","F","F","F">>)
        icon_path == get_icon_path(app_config["name"])
    IN  IF icon_type = Lit("generate")
        THEN generated_icon(fs, app_config, opts, render_ok, bg_color, text_color, icon_path,
                            generate_icon(fs, app_config["name"], ColorText(bg_color),
                                          ColorText(text_color), opts.bold, icon_path,
                                          opts.gradient))
        ELSE IF icon_type = Lit("custom")
        THEN IF opts.custom_icon # <<>> /\ path_exists(fs, opts.custom_icon)
             THEN [ fs   |-> fs,
                    app  |-> SetKey(SetKey(app_config, "icon_path", opts.custom_icon),
                                    "icon_type", Lit("custom")),
                    icon |-> opts.custom_icon ]
             ELSE [fs |-> fs, app |-> app_config, icon |-> DefaultIcon]
        ELSE IF opts.icon_name # <<>>
             THEN [ fs   |-> fs,
                    app  |-> SetKey(SetKey(app_config, "icon_type", Lit("system")),
                                    "icon_name", opts.icon_name),
                    icon |-> opts.icon_name ]
             ELSE [fs |-> fs, app |-> app_config, icon |-> DefaultIcon]

\* the text of the desktop entry, one element per line
desktop_content(app_config, launcher_script, icon_name, opts) ==
    << Lit("[Desktop Entry]"),
       Lit("Type=Application"),
       Lit("Name=") \o app_config["name"],
       Lit("Comment=Python application - ") \o app_config["name"],
       Lit("Exec=bash -i '") \o launcher_script \o Lit("'"),
       Lit("Icon=") \o icon_name,
       Lit("Terminal=") \o bool_text(opts.terminal),
       Lit("Categories=") \o or_default(opts.categories, Lit("Development")),
       Lit("StartupNotify=true"),
       Lit("Version=1.0"),
       Lit("Path=") \o Get(app_config, "workdir", dirname(Get(app_config, "script", <<>>))) >>

\* a build that records and returns the entry's path without writing anything
create_desktop_file_always_records(fs, app_config, opts, io) ==
    [ fs     |-> fs,
      app    |-> SetKey(app_config, "desktop_file", desktop_file_path(app_config["name"])),
      path   |-> desktop_file_path(app_config["name"]),
      raised |-> FALSE ]

\* the end of create_desktop_file, ic being what the icon step gave: the entry is written
\* and marked executable, and its path is recorded and returned. Every exception of these
\* steps is caught and None is returned: when open() raises (desk_w = FALSE) the entry's file
\* is not touched; when f.write() raises (desk_write_ok = FALSE) open() has created the file
\* or cut it to nothing, and it stays empty; when os.chmod raises (chmod_ok = FALSE) the
\* entry is on disk in full
write_desktop_entry(desktop_filepath, launcher_script, opts, io, ic) ==
    LET content == desktop_content(ic.app, launcher_script, ic.icon, opts)
    IN  IF ~io.desk_w
        THEN [fs |-> ic.fs, app |-> ic.app, path |-> <<>>, raised |-> FALSE]
        ELSE IF ~io.desk_write_ok
        THEN [ fs     |-> write_file(ic.fs, desktop_filepath, <<>>),
               app    |-> ic.app, path |-> <<>>, raised |-> FALSE ]
        ELSE IF ~io.chmod_ok
        THEN [ fs     |-> write_file(ic.fs, desktop_filepath, content),
               app    |-> ic.app, path |-> <<>>, raised |-> FALSE ]
        ELSE [ fs     |-> write_file(ic.fs, desktop_filepath, content),
               app    |-> SetKey(ic.app, "desktop_file", desktop_filepath),
               path   |-> desktop_filepath,
               raised |-> FALSE ]

\* create_desktop_file: the files and the descriptor afterwards, the path returned (<<>> for
\* None) and whether an exception left the function, which one of create_activation_script
\* does; a failure of the entry's own steps leaves the path neither recorded nor returned
create_desktop_file(fs, app_config, opts, io) ==
    LET has_launcher == "launcher_script" \in DOMAIN app_config
        a  == create_activation_script(fs, app_config, io.act_w)
        launcher_script == IF has_launcher THEN app_config["launcher_script"] ELSE a.path
        fs1 == IF has_launcher THEN fs ELSE a.fs
    IN  IF ~has_launcher /\ a.raised
        THEN [fs |-> fs, app |-> app_config, path |-> <<>>, raised |-> TRUE]
        ELSE write_desktop_entry(desktop_file_path(app_config["name"]), launcher_script,
                                 opts, io, resolve_icon(fs1, app_config, opts, io.render_ok))

\* generate_selected_desktop_file on the first descriptor with the selected name, at index i
generate_selected_desktop_file(i, opts, io) ==
    LET r     == create_desktop_file(files, saved_apps[i], opts, io)
        apps1 == [saved_apps EXCEPT ![i] = r.app]
    IN  /\ files' = r.fs
        /\ saved_apps' = apps1
        /\ apps_file' = IF r.path # <<>> THEN save_apps(apps_file, apps1, io.save_w)
                        ELSE apps_file
        /\ last' = [op |-> "generate_desktop", name |-> saved_apps[i]["name"],
                    out |-> IF r.raised THEN "raised"
                            ELSE IF r.path # <<>> THEN "created" ELSE "failed",
                    how |-> "none"]
        /\ clock' = clock + 1

GenerateSelectedDesktopFile(O, IO) ==
    /\ clock < MaxClock
    /\ UNCHANGED <<jobs, saved_kind>>
    /\ \E k \in 1..Len(saved_apps), opts \in O, io \in IO :
        generate_selected_desktop_file(existing_index(saved_apps, saved_apps[k]["name"]), opts, io)

\* the loop of generate_and_refresh_desktop from descriptor k on, ios[k] being what the
\* file system does while descriptor k is built: the registry and the files afterwards, and
\* whether create_desktop_file raised and ended the handler
RECURSIVE generate_all(_, _, _, _, _)
generate_all(apps, k, fs, opts, ios) ==
    IF k > Len(apps) THEN [apps |-> apps, fs |-> fs, raised |-> FALSE]
    ELSE LET r == create_desktop_file(fs, apps[k], opts, ios[k])
         IN  IF r.raised THEN [apps |-> apps, fs |-> r.fs, raised |-> TRUE]
             ELSE generate_all([apps EXCEPT ![k] = r.app], k + 1, r.fs, opts, ios)

\* generate_and_refresh_desktop; save_w tells whether the final save_apps can write
generate_and_refresh_desktop(opts, ios, save_w) ==
    LET r == generate_all(saved_apps, 1, files, opts, ios)
    IN  IF saved_apps = <<>>
        THEN UNCHANGED vars
        ELSE /\ saved_apps' = r.apps
             /\ files' = r.fs
             /\ apps_file' = IF r.raised THEN apps_file
                             ELSE save_apps(apps_file, r.apps, save_w)
             /\ last' = [op |-> "generate_all", name |-> <<>>,
                         out |-> IF r.raised THEN "raised" ELSE "generated", how |-> "none"]
             /\ clock' = clock + 1

GenerateAndRefreshDesktop(O, IO) ==
    /\ clock < MaxClock
    /\ UNCHANGED <<jobs, saved_kind>>
    /\ \E opts \in O, ios \in [1..Len(saved_apps) -> IO], save_w \in {io.save_w : io \in IO} :
        generate_and_refresh_desktop(opts, ios, save_w)

\* delete_desktop_file on the selected name, confirmed or not
delete_desktop_file(app_name, confirmed, io) ==
    LET i    == existing_index(saved_apps, app_name)
        app  == saved_apps[i]
        there == path_exists(files, app["desktop_file"])
        apps1 == [saved_apps EXCEPT ![i] = DelKey(app, "desktop_file")]
    IN  IF ~confirmed
        THEN UNCHANGED vars
        ELSE IF "desktop_file" \notin DOMAIN app
        THEN UNCHANGED vars
        ELSE IF there /\ (~io.rm_ok \/ app["desktop_file"] \notin DOMAIN files)
        THEN /\ last' = [op |-> "delete_desktop", name |-> app_name, out |-> "failed",
                         how |-> "none"]
             /\ clock' = clock + 1
             /\ UNCHANGED <<saved_apps, apps_file, files>>
        ELSE /\ files' = IF there THEN remove_file(files, app["desktop_file"]) ELSE files
             /\ saved_apps' = apps1
             /\ apps_file' = save_apps(apps_file, apps1, io.save_w)
             /\ last' = [op |-> "delete_desktop", name |-> app_name, out |-> "deleted",
                         how |-> "none"]
             /\ clock' = clock + 1

DeleteDesktopFile(IO) ==
    /\ clock < MaxClock
    /\ UNCHANGED <<jobs, saved_kind>>
    /\ \E k \in 1..Len(saved_apps), confirmed \in BOOLEAN, io \in IO :
        delete_desktop_file(saved_apps[k]["name"], confirmed, io)

\* the options of the Desktop Files tab as the program sets them at start
DefaultOptions == [ icon_type |-> Lit("generate"),
                    bg_color |-> <<"#","4","2","8","5","F","4">>,
                    text_color |-> <<"#","F","F","F","F","F","F">>,
                    bold |-> FALSE, gradient |-> TRUE,
                    custom_icon |-> <<>>, icon_name |-> <<>>,
                    categories |-> Lit("Development"), terminal |-> TRUE ]

\* the program is closed and started again: __init__ loads the registry file
Restart ==
    /\ clock < MaxClock
    /\ UNCHANGED jobs
    /\ saved_apps' = load_apps(apps_file)
    /\ saved_kind' = load_kind(apps_file)
    /\ last' = [op |-> "load", name |-> <<>>, out |-> apps_file.kind, how |-> "none"]
    /\ clock' = clock + 1
    /\ UNCHANGED <<apps_file, files>>

\* ---------------------------------------------------------------- specification

\* apps.json when the program is first started: missing, unparsable, a number, a text, an
\* object, an empty array, or an array with a descriptor that has no name
Init ==
    /\ apps_file \in { FileMissing, FileUnparsable, FileScalar("int", <<"7">>),
                       FileScalar("str", <<>>), FileObject(<<>>), FileArray(<<>>),
                       FileArray(<< [venv |-> <<"/","v">>] >>) }
    /\ saved_apps = load_apps(apps_file)
    /\ saved_kind = load_kind(apps_file)
    /\ files = <<>>
    /\ clock = 1
    /\ last = [op |-> "load", name |-> <<>>, out |-> apps_file.kind, how |-> "none"]
    /\ jobs = <<>>

Next ==
    \/ SaveAndCreateScript(Forms, NoFaults)
    \/ RunNow(RunNowForms, NoFaults)
    \/ RunSelectedApp(NoFaults)
    \/ DeleteSelectedApp(NoFaults)
    \/ GenerateSelectedDesktopFile({DefaultOptions}, NoFaults)
    \/ GenerateAndRefreshDesktop({DefaultOptions}, NoFaults)
    \/ DeleteDesktopFile(NoFaults)
    \/ Restart

Spec == Init /\ [][Next]_vars

\* ---------------------------------------------------------------- generation side by side

\* Section 5 of the design allows the generation for two different apps to run at the same
\* time. A job is the generation for one descriptor, step by step in the order the handlers
\* take: create_activation_script, create_xterm_launcher, create_desktop_file.

\* the forms of the jobs, for four names
GenForms == { [name |-> n, venv |-> ExistingVenv, script |-> ExistingScript,
               args |-> e.args, workdir |-> e.workdir] :
                  n \in { <<"A"," ","b">>, <<"a","-","b">>, <<"c">>,
                          <<"l","a","u","n","c","h","_","c">> },
                  e \in ExtraInputs }

NewJob(form) == [app |-> new_app_config(form, 1), pc |-> "activation"]

\* step 1: create_activation_script
GenActivation(k) ==
    LET a == create_activation_script(files, jobs[k].app, TRUE)
    IN  /\ jobs[k].pc = "activation"
        /\ files' = a.fs
        /\ jobs' = [jobs EXCEPT ![k].pc = "launcher",
                                ![k].app = SetKey(@, "activation_script", a.path)]
        /\ UNCHANGED <<saved_apps, saved_kind, apps_file, clock, last>>

\* step 2: create_xterm_launcher
GenLauncher(k) ==
    LET l == create_xterm_launcher(files, jobs[k].app, jobs[k].app["activation_script"], TRUE)
    IN  /\ jobs[k].pc = "launcher"
        /\ files' = l.fs
        /\ jobs' = [jobs EXCEPT ![k].pc = "desktop",
                                ![k].app = SetKey(@, "launcher_script", l.path)]
        /\ UNCHANGED <<saved_apps, saved_kind, apps_file, clock, last>>

\* step 3: create_desktop_file, which renders the icon, writes the entry and records the
\* entry's path in the descriptor in one call
GenDesktopFile(k) ==
    LET r == create_desktop_file(files, jobs[k].app, DefaultOptions, AllOk)
    IN  /\ jobs[k].pc = "desktop"
        /\ files' = r.fs
        /\ jobs' = [jobs EXCEPT ![k].pc = "done", ![k].app = r.app]
        /\ UNCHANGED <<saved_apps, saved_kind, apps_file, clock, last>>

\* two jobs for descriptors with different names, on an empty disk
InitGen ==
    /\ jobs \in { <<NewJob(f), NewJob(g)>> : f \in GenForms, g \in GenForms }
    /\ jobs[1].app["name"] # jobs[2].app["name"]
    /\ files = <<>>
    /\ saved_apps = <<>>
    /\ saved_kind = "list"
    /\ apps_file = FileMissing
    /\ clock = 1
    /\ last = [op |-> "generate", name |-> <<>>, out |-> "none", how |-> "none"]

NextGen ==
    \E k \in {1, 2} :
        \/ GenActivation(k)
        \/ GenLauncher(k)
        \/ GenDesktopFile(k)

SpecGen == InitGen /\ [][NextGen]_vars

\* ---------------------------------------------------------------- failing writes, icon options

\* one thing fails during a handler: opening apps.json, the activation script, the launcher
\* script or the desktop entry for writing, writing the entry's text, marking the entry
\* executable, rendering the icon
Fails(what) == [AllOk EXCEPT ![what] = FALSE]

\* what can happen during save_and_create_script
SaveFaults == {AllOk, Fails("act_w"), Fails("launch_w"), Fails("save_w")}

\* what can happen during create_desktop_file
BuildFaults == {AllOk, Fails("act_w"), Fails("desk_w"), Fails("desk_write_ok"),
                Fails("chmod_ok"), Fails("render_ok")}

\* what can happen to each build of a generation for the whole registry
GenerateAllFaults == {AllOk, Fails("act_w"), Fails("desk_w")}

\* the choices of the Desktop Files tab: a generated icon, a custom icon file that exists,
\* one that does not, none; a system icon name, none
Options == { DefaultOptions,
             [DefaultOptions EXCEPT !.icon_type = Lit("custom"), !.custom_icon = <<"/","i">>],
             [DefaultOptions EXCEPT !.icon_type = Lit("custom"), !.custom_icon = <<"/","n","i">>],
             [DefaultOptions EXCEPT !.icon_type = Lit("custom")],
             [DefaultOptions EXCEPT !.icon_type = Lit("system"), !.icon_name = <<"p","y">>],
             [DefaultOptions EXCEPT !.icon_type = Lit("system")] }

\* the forms saved while writes can fail
FaultForms == { f \in Forms : /\ f.name \in { <<"A"," ","b">>, <<" ","c"," ">> }
                              /\ f.venv = ExistingVenv /\ f.script = ExistingScript
                              /\ f.args = <<>> }

\* an earlier run of the program saved one app and was closed: what it left in apps.json
\* and on disk
EarlierForm == [name |-> <<"a","-","b">>, venv |-> ExistingVenv, script |-> ExistingScript,
                args |-> <<>>, workdir |-> <<"/","w">>]
EarlierSession == save_accepted(<<>>, FileMissing, <<>>, EarlierForm, 1, FALSE, AllOk)

\* the program starts on a new machine, or after the earlier run
InitFault ==
    /\ \/ apps_file = FileMissing /\ files = <<>>
       \/ apps_file = EarlierSession.file /\ files = EarlierSession.fs
    /\ saved_apps = load_apps(apps_file)
    /\ saved_kind = load_kind(apps_file)
    /\ clock = 1
    /\ last = [op |-> "load", name |-> <<>>, out |-> apps_file.kind, how |-> "none"]
    /\ jobs = <<>>

NextFault ==
    \/ SaveAndCreateScript(FaultForms, SaveFaults)
    \/ GenerateSelectedDesktopFile({DefaultOptions}, BuildFaults)
    \/ GenerateAndRefreshDesktop({DefaultOptions}, GenerateAllFaults)
    \/ DeleteDesktopFile({AllOk, Fails("rm_ok")})
    \/ Restart

SpecFault == InitFault /\ [][NextFault]_vars

\* the icon choices, with a renderer that works or fails
IconFaults == {AllOk, Fails("render_ok")}

NextIcons ==
    \/ SaveAndCreateScript(FaultForms, NoFaults)
    \/ GenerateSelectedDesktopFile(Options, IconFaults)
    \/ GenerateAndRefreshDesktop(Options, IconFaults)
    \/ DeleteDesktopFile(NoFaults)
    \/ Restart

SpecIcons == InitFault /\ [][NextIcons]_vars

\* ---------------------------------------------------------------- launching with a failing terminal

\* run_script_file called on script_path: the files stay as they are, and `last' keeps the
\* steps the call took
run_script_file_call(script_path, io) ==
    LET t == launch_attempts(files, script_path, io.xterm_ok, io.bash_ok)
    IN  /\ last' = [op |-> "run_script_file", name |-> script_path,
                    out |-> IF t.raised THEN "raised" ELSE "returned",
                    how |-> t.outcome, steps |-> t]
        /\ clock' = clock + 1
        /\ UNCHANGED <<saved_apps, apps_file, files>>

RunScriptFile(P, IO) ==
    /\ clock < MaxClock
    /\ UNCHANGED <<jobs, saved_kind>>
    /\ \E script_path \in P, io \in IO : run_script_file_call(script_path, io)

\* what can happen when a script is launched: xterm starts; xterm cannot be spawned and bash
\* can; neither can
LaunchFaults == { AllOk, Fails("xterm_ok"),
                  [AllOk EXCEPT !.xterm_ok = FALSE, !.bash_ok = FALSE] }

\* run_script_file is called on the launcher and the activation script the saved forms give,
\* and on a script that is not on disk
NextLaunch ==
    \/ SaveAndCreateScript(FaultForms, LaunchFaults)
    \/ RunNow(FaultForms, LaunchFaults)
    \/ RunSelectedApp(LaunchFaults)
    \/ DeleteSelectedApp(NoFaults)
    \/ RunScriptFile({ launcher_script_path(<<"A"," ","b">>), activation_script_path(<<"c">>),
                       <<"/","n","s">> },
                     LaunchFaults)
    \/ Restart

SpecLaunch == InitFault /\ [][NextLaunch]_vars

\* ---------------------------------------------------------------- launching saved apps

\* an earlier run of the program saved two apps, 'a-b' and then 'A b', and was closed. The
\* second save wrote apps.json when the first descriptor already had its script paths (set
\* after its own save) and the second had none yet, and both apps share their script files
EarlierSaves ==
    save_accepted(EarlierSession.apps, EarlierSession.file, EarlierSession.fs,
                  [name |-> <<"A"," ","b">>, venv |-> ExistingVenv, script |-> ExistingScript,
                   args |-> <<>>, workdir |-> <<>>],
                  2, FALSE, AllOk)

\* the program starts on a new machine, or after the earlier run with its two saves
InitRun ==
    /\ \/ apps_file = FileMissing /\ files = <<>>
       \/ apps_file = EarlierSaves.file /\ files = EarlierSaves.fs
    /\ saved_apps = load_apps(apps_file)
    /\ saved_kind = load_kind(apps_file)
    /\ clock = 1
    /\ last = [op |-> "load", name |-> <<>>, out |-> apps_file.kind, how |-> "none"]
    /\ jobs = <<>>

NextRun ==
    \/ SaveAndCreateScript(FaultForms, NoFaults)
    \/ RunSelectedApp(NoFaults)
    \/ DeleteSelectedApp(NoFaults)
    \/ Restart

SpecRun == InitRun /\ [][NextRun]_vars

\* ---------------------------------------------------------------- the icon generator's functions

\* The methods of IconGenerator are applied to arguments taken from bounded sets, and `last'
\* keeps the argument and the result. A static method leaves the registry and the files
\* alone; generate_icon and generate_icon_with_style write the picture when they are given an
\* output path.

\* nothing was called yet. The methods keep no state, so a behaviour is one call on a
\* generator that was just constructed.
Fresh == last.op = "construct"

\* a call of a static method: what it was given and what it returned
Call(op, argument, result) ==
    /\ last' = [op |-> op, name |-> argument, out |-> "returned", how |-> "none",
                result |-> result]
    /\ UNCHANGED <<saved_apps, saved_kind, apps_file, files, clock, jobs>>

\* the longest text get_initials is applied to
MaxText == 5

\* texts of letters in both cases and spaces, texts with other whitespace, and texts with
\* letters of more than one script, among them letters whose upper case is two characters
Texts == UNION { [1..n -> {"a", "B", " "}] : n \in 0..MaxText }
         \cup { <<"\t">>, <<"a","\t","B">>, <<"\n","B","a","\n">>, <<"a"," ","\t","a">> }
         \cup { <<"\r">>, <<"a","\r","b">>, <<"a","U+000B","B">>, <<"U+00A0">>,
                <<"U+001C","a","U+001F","b"," ","c">>, <<"\f","B","U+0085","a">>,
                <<"a","U+2003","b">>, <<"a","b","U+3000">> }
         \cup { <<"U+00DF","a">>, <<"U+00E9">>, <<"U+00E9","a">>, <<"U+00B5"," ","b">>,
                <<"U+01C6">>, <<"U+FB01","x">>, <<"a"," ","U+00DF">>, <<"U+0149">>,
                <<"U+00C9","A"," ","b">> }

GetInitials(T) ==
    /\ Fresh
    /\ \E text \in T : Call("get_initials", text, get_initials(text))

\* the hex digits of n >= 0, lower case, without padding: format(n, 'x')
RECURSIVE to_hex(_)
to_hex(n) == IF n < 16 THEN <<HexDigits[n + 1]>>
             ELSE to_hex(n \div 16) \o <<HexDigits[(n % 16) + 1]>>

\* a channel formatted without padding
format_x(n) == to_hex(n)

\* '{:02x}'.format(n) for n >= 0: padded with a zero to two digits
format_02x(n) == IF n < 16 THEN <<"0">> \o to_hex(n) ELSE to_hex(n)

\* IconGenerator.rgb_to_hex
rgb_to_hex(rgb) == <<"#">> \o format_02x(rgb[1]) \o format_02x(rgb[2]) \o format_02x(rgb[3])

\* the color texts hex_to_rgb is applied to: none, one or two '#' before up to six hex digits
\* of both cases, and texts with seven and eight digits, with a character that is no hex
\* digit, with a sign and with blanks
HexBodies == UNION { [1..n -> {"0", "a", "F"}] : n \in 0..6 }
             \cup { <<"1","2","3","4","5","6","7">>, <<"1","2","3","4","5","6","7","8">>,
                    <<"g","g","g","g","g","g">>, <<"0","0","0","0","0","g">>,
                    <<"4","2","8","5","F","4">>, <<"4","2","8","5","f">>,
                    <<"+","1","+","2","+","3">>, <<"-","1","-","2","-","3">>,
                    <<" ","1"," ","2"," ","3">>, <<"0","x","0","x","0","x">>,
                    <<"\r","1","\f","2","U+00A0","3">>,
                    <<"U+001C","1","U+001C","2","U+001C","3">>,
                    <<"0","0","#","0","0","0">> }

HexToRgb(H) ==
    /\ Fresh
    /\ \E hex_color \in H : Call("hex_to_rgb", hex_color, hex_to_rgb(hex_color))

\* channel values at both ends of the range, around one hex digit and around the middle
Channels == {0, 1, 9, 10, 15, 16, 127, 128, 254, 255}

RgbToHex(C) ==
    /\ Fresh
    /\ \E rgb \in C : Call("rgb_to_hex", rgb, rgb_to_hex(rgb))

\* The colors are computed in floating point (colorsys) and cut to integers by int(). With
\* h and s kept, every channel of the result is the channel of the argument times v'/v, v
\* being the largest channel over 255. A factor is the fraction n/d; the value after the
\* change is kept as the integer 255 * d * v'.

\* min(1.0, v + factor), times 255 * d
lighter_value(rgb, factor) ==
    LET w == Max3(rgb) * factor.d + 255 * factor.n
    IN  IF w > 255 * factor.d THEN 255 * factor.d ELSE w

\* max(0, v - factor), times 255 * d
darker_value(rgb, factor) ==
    LET w == Max3(rgb) * factor.d - 255 * factor.n
    IN  IF w < 0 THEN 0 ELSE w

\* int(x * 255) for a float x * 255 that stands for num / den: the fraction is cut off; when
\* num / den is a whole number the rounding of the float operations can leave the float just
\* below it, and int() then gives the number before
int_of_float(num, den) ==
    IF num % den = 0 /\ num \div den > 0
    THEN { num \div den, (num \div den) - 1 }
    ELSE { num \div den }

\* hsv_to_rgb(h, s, v') cut to integers, for the value w / (255 * d): the tuples the
\* function can return
with_value(rgb, w, d) ==
    LET m == Max3(rgb)
        ch(k) == IF m = 0 THEN int_of_float(w, d) ELSE int_of_float(rgb[k] * w, m * d)
    IN  { <<r, g, b>> : r \in ch(1), g \in ch(2), b \in ch(3) }

\* IconGenerator.lighten_color, for a color rgb_to_hsv returns for
lighten_color(rgb, factor) == with_value(rgb, lighter_value(rgb, factor), factor.d)

\* IconGenerator.darken_color, for a color rgb_to_hsv returns for
darken_color(rgb, factor) == with_value(rgb, darker_value(rgb, factor), factor.d)

\* the factors: the default 0.2, and 0.15 and 0.1 as generate_icon passes them
Factors == { [n |-> 1, d |-> 5], [n |-> 3, d |-> 20], [n |-> 1, d |-> 10] }

\* the colors that are made lighter and darker
ShadeChannels == {0, 1, 10, 16, 128, 204, 255}
ShadeColors == { <<r, g, b>> : r \in ShadeChannels, g \in ShadeChannels, b \in ShadeChannels }

LightenColor(C, Fs) ==
    /\ Fresh
    /\ \E rgb \in C, factor \in Fs : \E result \in lighten_color(rgb, factor) :
        Call("lighten_color", [rgb |-> rgb, factor |-> factor], result)

DarkenColor(C, Fs) ==
    /\ Fresh
    /\ \E rgb \in C, factor \in Fs : \E result \in darken_color(rgb, factor) :
        Call("darken_color", [rgb |-> rgb, factor |-> factor], result)

\* IconGenerator.COLOR_PALETTES: blue, red, orange, yellow, green, purple, teal, indigo, pink,
\* light green
COLOR_PALETTES ==
    << [bg |-> <<66, 133, 244>>, text |-> <<255, 255, 255>>],
       [bg |-> <<219, 68, 55>>,  text |-> <<255, 255, 255>>],
       [bg |-> <<244, 81, 30>>,  text |-> <<255, 255, 255>>],
       [bg |-> <<251, 188, 5>>,  text |-> <<50, 50, 50>>],
       [bg |-> <<52, 168, 83>>,  text |-> <<255, 255, 255>>],
       [bg |-> <<156, 39, 176>>, text |-> <<255, 255, 255>>],
       [bg |-> <<0, 150, 136>>,  text |-> <<255, 255, 255>>],
       [bg |-> <<63, 81, 181>>,  text |-> <<255, 255, 255>>],
       [bg |-> <<233, 30, 99>>,  text |-> <<255, 255, 255>>],
       [bg |-> <<76, 175, 80>>,  text |-> <<255, 255, 255>>] >>

\* style.split('_'): the parts between the underscores, empty parts kept
RECURSIVE split_underscore(_)
split_underscore(s) ==
    IF \A i \in 1..Len(s) : s[i] # "_"
    THEN <<s>>
    ELSE LET i == CHOOSE k \in 1..Len(s) : s[k] = "_" /\ \A j \in 1..(k - 1) : s[j] # "_"
         IN  <<SubSeq(s, 1, i - 1)>> \o split_underscore(SubSeq(s, i + 1, Len(s)))

\* the value of a text of decimal digits
RECURSIVE decimal_value(_)
decimal_value(digits) ==
    IF digits = <<>> THEN 0
    ELSE 10 * decimal_value(SubSeq(digits, 1, Len(digits) - 1)) + HexValue(digits[Len(digits)])

\* int(t) for a text without underscores: whitespace around the number is dropped; what is
\* left is decimal digits, with or without a sign before them; anything else raises
\* ValueError (ok = FALSE)
int10(t) ==
    LET u      == int_strip(t)
        signed == u # <<>> /\ u[1] \in {"+", "-"}
        digits == IF signed THEN Tail(u) ELSE u
    IN  IF digits # <<>> /\ \A i \in 1..Len(digits) : \E v \in 1..10 : HexDigits[v] = digits[i]
        THEN [ok |-> TRUE, value |-> IF signed /\ u[1] = "-" THEN 0 - decimal_value(digits)
                                     ELSE decimal_value(digits)]
        ELSE [ok |-> FALSE, value |-> 0]

\* IconGenerator.generate_icon_with_style: the files afterwards, what is returned and whether
\* an exception left the function. With the style 'auto' random.choice takes a palette, the
\* one at position choice; any other style is read as <text>_<number> and raises IndexError
\* without an underscore and ValueError when no number follows the first one. The number
\* counts the palettes from 1 and wraps around (% in Python gives 0..9 for every integer).
generate_icon_with_style(fs, app_name, style, output_path, choice) ==
    LET parts == split_underscore(style)
        n     == IF Len(parts) < 2 THEN [ok |-> FALSE, value |-> 0] ELSE int10(parts[2])
        idx   == n.value - 1
        palette == IF style = <<"a","u","t","o">> THEN COLOR_PALETTES[choice]
                   ELSE COLOR_PALETTES[(idx % Len(COLOR_PALETTES)) + 1]
    IN  IF style # <<"a","u","t","o">> /\ ~n.ok
        THEN [fs |-> fs, result |-> <<>>, raised |-> TRUE]
        ELSE generate_icon(fs, app_name, ColorTuple(palette.bg), ColorTuple(palette.text),
                           FALSE, output_path, TRUE)

\* the names icons are drawn for
StyleNames == { <<"A"," ","b">>, <<"c">>, <<>> }

\* the styles: random, the first, the yellow and the last palette, numbers past both ends of
\* the list, a number between blanks, a style of three parts, and styles without an
\* underscore or without a number
Styles == { <<"a","u","t","o">>,
            <<"p","a","l","e","t","t","e","_","1">>,
            <<"p","a","l","e","t","t","e","_","4">>,
            <<"p","a","l","e","t","t","e","_","1","0">>,
            <<"p","a","l","e","t","t","e","_","1","1">>,
            <<"p","a","l","e","t","t","e","_","0">>,
            <<"p","a","l","e","t","t","e","_","-","1">>,
            <<"_"," ","2"," ">>,
            <<"1","_","2","_","3">>,
            <<"p","a","l","e","t","t","e">>,
            <<"p","a","l","e","t","t","e","_">>,
            <<"p","a","l","e","t","t","e","_","x">>,
            <<"A","u","t","o">> }

\* the colors generate_icon is called with: none, a palette's as a tuple and as text, a
\* color of three digits, a word, and a text hex_to_rgb reads as (0, 0, -1)
ColorInputs == { ColorNone, ColorTuple(<<219, 68, 55>>),
                 ColorText(<<"#","4","2","8","5","F","4">>),
                 ColorText(<<"d","b","4","4","3","7">>),
                 ColorText(<<"#","f","f","f">>), ColorText(<<"r","e","d">>),
                 ColorText(<<"#","0","0","0","0","-","1">>) }

\* a call of generate_icon, with the path get_icon_path gives for the name or without an
\* output path
GenerateIcon(N, C) ==
    /\ Fresh
    /\ \E app_name \in N, bg_color \in C, text_color \in C, bold \in BOOLEAN,
          with_gradient \in BOOLEAN :
         \E output_path \in {<<>>, get_icon_path(app_name)} :
            LET r == generate_icon(files, app_name, bg_color, text_color, bold, output_path,
                                   with_gradient)
            IN  /\ files' = r.fs
                /\ last' = [op |-> "generate_icon",
                            name |-> [app_name |-> app_name, bg_color |-> bg_color,
                                      text_color |-> text_color, bold |-> bold,
                                      output_path |-> output_path,
                                      with_gradient |-> with_gradient],
                            out |-> IF r.raised THEN "raised" ELSE "returned",
                            how |-> "none", result |-> r.result]
    /\ UNCHANGED <<saved_apps, saved_kind, apps_file, clock, jobs>>

\* a call of generate_icon_with_style, with the path get_icon_path gives for the name or
\* without an output path
GenerateIconWithStyle(N, S) ==
    /\ Fresh
    /\ \E app_name \in N, style \in S, choice \in 1..Len(COLOR_PALETTES) :
         \E output_path \in {<<>>, get_icon_path(app_name)} :
            LET r == generate_icon_with_style(files, app_name, style, output_path, choice)
            IN  /\ files' = r.fs
                /\ last' = [op |-> "generate_icon_with_style",
                            name |-> [app_name |-> app_name, style |-> style,
                                      output_path |-> output_path],
                            out |-> IF r.raised THEN "raised" ELSE "returned",
                            how |-> "none", result |-> r.result]
    /\ UNCHANGED <<saved_apps, saved_kind, apps_file, clock, jobs>>

\* an IconGenerator has been constructed and nothing was called yet
InitGenerator ==
    /\ saved_apps = <<>>
    /\ saved_kind = "list"
    /\ apps_file = FileMissing
    /\ files = <<>>
    /\ clock = 1
    /\ jobs = <<>>
    /\ last = [op |-> "construct", name |-> <<>>, out |-> "returned", how |-> "none",
               result |-> <<>>]

NextGenerator ==
    \/ GetInitials(Texts)
    \/ HexToRgb({ prefix \o body : prefix \in { <<>>, <<"#">>, <<"#","#">> }, body \in HexBodies })
    \/ RgbToHex({ <<r, g, b>> : r \in Channels, g \in Channels, b \in Channels })
    \/ LightenColor(ShadeColors, Factors)
    \/ DarkenColor(ShadeColors, Factors)
    \/ GenerateIcon(StyleNames, ColorInputs)
    \/ GenerateIconWithStyle(StyleNames, Styles)

SpecGenerator == InitGenerator /\ [][NextGenerator]_vars

\* ---------------------------------------------------------------- properties

\* the descriptors of the registry apps that are named app_name
Named(apps, app_name) == { i \in 1..Len(apps) : apps[i]["name"] = app_name }

\* the last handler was a save that got past its checks and changed the registry
SaveTookEffect(l) == l.op = "save" /\ l.out \in {"appended", "overwritten", "raised"}

\* no two descriptors of the registry have the same name
UniqueNames == \A i, j \in 1..Len(saved_apps) :
                   saved_apps[i]["name"] = saved_apps[j]["name"] => i = j

\* a save of a name the registry already holds does not add a descriptor
SaveExistingKeepsCount ==
    (SaveTookEffect(last') /\ Named(saved_apps, last'.name) # {})
        => Len(saved_apps') = Len(saved_apps)

\* C1: at every time the registry holds at most one descriptor for a name (compared
\* exactly, case included), and a save of a name that is already there leaves the number of
\* descriptors as it was.
C1_OneDescriptorPerName == [](UniqueNames) /\ [][SaveExistingKeepsCount]_vars

\* C1: a save has overwritten one of two registered descriptors
C1_Witness == /\ last.op = "save" /\ last.out = "overwritten"
              /\ Len(saved_apps) = 2
              /\ Cardinality(Named(saved_apps, last.name)) = 1

\* texts of which Python's str.strip() leaves nothing
BlankTexts == { <<>>, <<" ">>, <<" ","\r">>, <<"\t","U+000B">> }

\* a text that is empty after trimming: it holds no character other than whitespace
Blank(t) == t \in BlankTexts \/ \A k \in 1..Len(t) : t[k] \in Whitespace

\* a form with an empty name, venv or script once trimmed
HasEmptyField(f) == Blank(f.name) \/ Blank(f.venv) \/ Blank(f.script)

\* C4: a save whose name, venv path or script path is empty after trimming changes neither
\* the registry in memory, nor the registry file, nor any file on disk.
C4_EmptyFieldRejected ==
    [][\A f \in Forms, overwrite \in BOOLEAN, run \in BOOLEAN :
          (last'.op = "save" /\ HasEmptyField(f)
             /\ save_and_create_script(f, overwrite, run, AllOk))
              => UNCHANGED <<saved_apps, apps_file, files>>]_vars

\* C4: a save was refused for an empty field while the registry held a descriptor
C4_Witness == /\ last.op = "save" /\ last.out = "rejected_empty"
              /\ saved_apps # <<>>
              /\ apps_file.kind = "array"
              /\ files # <<>>

\* no two descriptors of the registry share a normalized name, so no two share a file
NoSharedPaths == \A i, j \in 1..Len(saved_apps) :
                     safe_name(saved_apps[i]["name"]) = safe_name(saved_apps[j]["name"]) => i = j

\* the activation script and the launcher script a descriptor records, where the file
\* exists, hold what the templates give for the descriptor's fields
ScriptsMatch(app) ==
    /\ ("activation_script" \in DOMAIN app /\ app["activation_script"] \in DOMAIN files)
           => files[app["activation_script"]] = activation_script_content(app)
    /\ ("launcher_script" \in DOMAIN app /\ app["launcher_script"] \in DOMAIN files
          /\ "activation_script" \in DOMAIN app)
           => files[app["launcher_script"]]
                  = launcher_script_content(app, app["activation_script"])

\* C2: every script file a descriptor records holds the templater's output for the fields
\* the descriptor was last saved with (stated for registries in which no two names share
\* their files, so that only handlers working on the descriptor's own name are involved).
C2_ScriptsMatchLastSave ==
    NoSharedPaths => \A i \in 1..Len(saved_apps) : ScriptsMatch(saved_apps[i])

\* C3: once a descriptor has been removed, neither its activation script nor its launcher
\* script exists (no deletion is refused by the file system here).
C3_RemoveDeletesScripts ==
    (last.op = "delete" /\ last.out = "deleted")
        => /\ ~path_exists(files, activation_script_path(last.name))
           /\ ~path_exists(files, launcher_script_path(last.name))

\* a form whose name, venv and script are all non-empty once trimmed
AllFieldsGiven(f) == ~HasEmptyField(f)

\* the record of the step can be that of a confirmed save of form f: a necessary condition of
\* save_and_create_script(f, TRUE, run, AllOk), tested first so that the handler is evaluated
\* only for the forms the step can have come from
SaveRecordFits(f, run) ==
    /\ last'.name = IF path_not_found(files, strip(f.venv), strip(f.script))
                    THEN <<>> ELSE strip(f.name)
    /\ run \/ last'.how = "none"

\* the registry holds a descriptor built from form f at time now
Registered(apps, f, now) ==
    \E i \in 1..Len(apps) :
        /\ apps[i]["name"] = strip(f.name)
        /\ apps[i]["venv"] = strip(f.venv)
        /\ apps[i]["script"] = strip(f.script)
        /\ apps[i]["created"] = now

\* C5 as claimed: a save with all three fields given is accepted into the registry (the
\* overwrite being confirmed where one is asked for), whether or not the paths exist.
C5_SaveIgnoresExistence ==
    [][\A f \in Forms, run \in BOOLEAN :
          (last'.op = "save" /\ AllFieldsGiven(f)
             /\ SaveRecordFits(f, run)
             /\ save_and_create_script(f, TRUE, run, AllOk))
              => Registered(saved_apps', f, clock)]_vars

\* both paths of a form exist on disk
PathsExist(f) == strip(f.venv) \in ExistingUserPaths /\ strip(f.script) \in ExistingUserPaths

\* C5, amended: a save with all three fields given whose venv path or script path does not
\* exist on disk is refused, whatever the answer to the overwrite question would be: the
\* descriptor does not enter the registry, and the registry, the registry file and every file
\* stay as they were. Existence of both paths is checked by the save itself.
C5_SaveChecksExistence ==
    [][\A f \in Forms, overwrite \in BOOLEAN, run \in BOOLEAN :
          (last'.op = "save" /\ AllFieldsGiven(f) /\ ~PathsExist(f)
             /\ save_and_create_script(f, overwrite, run, AllOk))
              => /\ last'.out = "rejected_notfound"
                 /\ ~Registered(saved_apps', f, clock)
                 /\ UNCHANGED <<saved_apps, apps_file, files>>]_vars

\* C5: a save was refused for a path that does not exist, the registry holding a descriptor
C5_Witness == /\ last.op = "save" /\ last.out = "rejected_notfound"
              /\ saved_apps # <<>>
              /\ files # <<>>

\* C6: a save that takes effect on a name the registry (a list) holds replaces that
\* descriptor where it stands, and on a new name adds the descriptor at the end; in both cases
\* every other descriptor stays at its index with its content.
C6_UpsertFrame ==
    [][(saved_kind = "list" /\ SaveTookEffect(last')) =>
          LET before == Named(saved_apps, last'.name)
          IN  IF before # {}
              THEN /\ Len(saved_apps') = Len(saved_apps)
                   /\ \A i \in 1..Len(saved_apps) :
                          IF i \in before
                          THEN saved_apps'[i]["name"] = last'.name
                          ELSE saved_apps'[i] = saved_apps[i]
              ELSE /\ Len(saved_apps') = Len(saved_apps) + 1
                   /\ saved_apps'[Len(saved_apps')]["name"] = last'.name
                   /\ \A i \in 1..Len(saved_apps) : saved_apps'[i] = saved_apps[i]]_vars

\* C6: the first of two descriptors was overwritten by a save and is still the first
C6_Witness == /\ last.op = "save" /\ last.out = "overwritten"
              /\ Len(saved_apps) = 2
              /\ saved_apps[1]["name"] = last.name
              /\ saved_apps[1]["created"] > saved_apps[2]["created"]

\* C7: as long as a name stays in the registry, the creation time of its descriptor stays
\* what it was.
C7_CreatedNeverChanges ==
    [][\A i \in 1..Len(saved_apps), j \in 1..Len(saved_apps') :
          saved_apps[i]["name"] = saved_apps'[j]["name"]
              => saved_apps'[j]["created"] = saved_apps[i]["created"]]_vars

\* the descriptors of a registry file, none when it holds no array
FileItems(file) == IF file.kind = "array" THEN file.items ELSE <<>>

\* C8: when a handler has launched a registered app (run_selected_app, or the run at the
\* end of a save), the descriptor's last_run is the time of that handler, in memory and in
\* the registry file.
C8_LaunchSetsLastRun ==
    (last.op \in {"save", "run_selected"} /\ Started(last.how))
        => /\ \A i \in Named(saved_apps, last.name) : saved_apps[i]["last_run"] = clock - 1
           /\ \A i \in Named(FileItems(apps_file), last.name) :
                  FileItems(apps_file)[i]["last_run"] = clock - 1

\* apps.json holds an array of objects that each have a name
WellFormedFile(file) ==
    file.kind = "array" /\ \A i \in 1..Len(file.items) : "name" \in DOMAIN file.items[i]

\* C9: after a start with a registry file that is missing, or that does not parse as an
\* array of descriptors, the registry in memory is the empty collection: a list, with no
\* descriptor in it.
C9_LoadBadFileGivesEmpty ==
    (last.op = "load" /\ ~WellFormedFile(apps_file))
        => (saved_kind = "list" /\ saved_apps = <<>>)

\* the files after the whole generation for descriptor app_config, as save_and_create_script
\* followed by create_desktop_file runs it
GeneratedFiles(fs, app_config) ==
    LET a == create_activation_script(fs, app_config, TRUE)
        l == create_xterm_launcher(a.fs, app_config, a.path, TRUE)
    IN  create_desktop_file(l.fs, with_scripts(app_config, a.path, l.path),
                            DefaultOptions, AllOk).fs

\* the four paths generation writes for a name
ArtifactPaths(app_name) ==
    { activation_script_path(app_name), launcher_script_path(app_name),
      desktop_file_path(app_name), get_icon_path(app_name) }

BothDone == jobs # <<>> /\ jobs[1].pc = "done" /\ jobs[2].pc = "done"

\* the files are what running the two generations one after the other leaves
SameAsOneAfterTheOther(first, second) ==
    files = GeneratedFiles(GeneratedFiles(<<>>, first), second)

\* the descriptor job k started from
JobDescriptor(k) ==
    [x \in {"name", "venv", "script", "args", "workdir", "created", "last_run"}
        |-> jobs[k].app[x]]

\* C10 as claimed: for two descriptors with different names the generation steps, taken in
\* any order, leave the files that one generation after the other leaves.
C10_DifferentNamesCommute ==
    BothDone => /\ SameAsOneAfterTheOther(JobDescriptor(1), JobDescriptor(2))
                /\ SameAsOneAfterTheOther(JobDescriptor(2), JobDescriptor(1))

\* neither normalized name is the other, nor the other with launch_ before it (the launcher
\* script of "c" and the activation script of "launch_c" are both launch_c.sh)
UnrelatedNames(n, m) ==
    /\ safe_name(n) # safe_name(m)
    /\ safe_name(n) # <<"l","a","u","n","c","h","_">> \o safe_name(m)
    /\ safe_name(m) # <<"l","a","u","n","c","h","_">> \o safe_name(n)

\* C10, amended: for two descriptors whose normalized names differ, and of which neither is
\* "launch_" followed by the other, generation writes to disjoint paths, and the generation
\* steps, taken in any order, leave the files that one generation after the other leaves.
C10_UnrelatedNamesCommute ==
    (jobs # <<>> /\ UnrelatedNames(jobs[1].app["name"], jobs[2].app["name"]))
        => /\ ArtifactPaths(jobs[1].app["name"]) \cap ArtifactPaths(jobs[2].app["name"]) = {}
           /\ BothDone => /\ SameAsOneAfterTheOther(JobDescriptor(1), JobDescriptor(2))
                          /\ SameAsOneAfterTheOther(JobDescriptor(2), JobDescriptor(1))

\* C10: both generations are done for two unrelated names, and all eight files exist
C10_Witness ==
    /\ BothDone
    /\ UnrelatedNames(jobs[1].app["name"], jobs[2].app["name"])
    /\ Cardinality(DOMAIN files) = 8

\* t is s with every upper-case letter of A to Z lowered, every space and every hyphen
\* replaced by an underscore, and every other character kept (for a name of ASCII characters)
IsNormalized(s, t) ==
    LET small == [ A |-> "a", B |-> "b", C |-> "c", D |-> "d", E |-> "e", F |-> "f", G |-> "g", H
                |-> "h", I |-> "i", J |-> "j", K |-> "k", L |-> "l", M |-> "m", N |-> "n", O |->
                "o", P |-> "p", Q |-> "q", R |-> "r", S |-> "s", T |-> "t", U |-> "u", V |->
                "v", W |-> "w", X |-> "x", Y |-> "y", Z |-> "z" ]
    IN  /\ Len(t) = Len(s)
        /\ \A i \in 1..Len(s) :
               IF s[i] \in {" ", "-"} THEN t[i] = "_"
               ELSE IF s[i] \in DOMAIN small
                    THEN t[i] = small[s[i]]
                    ELSE t[i] = s[i]

\* the four paths that belong to a normalized name
PathsOfNormalized(n) ==
    { path_join(scripts_dir, n \o <<".","s","h">>),
      path_join(scripts_dir, <<"l","a","u","n","c","h","_">> \o n \o <<".","s","h">>),
      path_join(desktop_files_dir, n \o <<".","d","e","s","k","t","o","p">>),
      path_join(icons_dir, n \o <<".","p","n","g">>) }

\* the names the forms give, and the names of the registry
KnownNames == { strip(f.name) : f \in Forms } \cup { saved_apps[i]["name"] : i \in 1..Len(saved_apps) }

\* what app_name.lower().replace(' ', '_').replace('-', '_') of the source gives for names
\* with letters other than A to Z: a capital letter with an accent, the capital I with a dot
\* (two characters in lower case), and the capital sigma within and at the end of a word
NormalizedInPython ==
    { [name |-> <<"U+00C9","a">>,                   normalized |-> <<"U+00E9","a">>],
      [name |-> <<"U+00E9","a">>,                   normalized |-> <<"U+00E9","a">>],
      [name |-> <<"U+0130"," ","b">>,               normalized |-> <<"i","U+0307","_","b">>],
      [name |-> <<"U+0391","-","U+03A3">>,          normalized |-> <<"U+03B1","_","U+03C3">>],
      [name |-> <<"A","U+03A3">>,                   normalized |-> <<"a","U+03C2">>],
      [name |-> <<"U+03A3"," ","a">>,               normalized |-> <<"U+03C3","_","a">>],
      [name |-> <<"U+00C4","U+03A3","'","-","b">>,  normalized |-> <<"U+00E4","U+03C2","'","_","b">>],
      [name |-> <<"U+00DF"," ","A">>,               normalized |-> <<"U+00DF","_","a">>] }

\* the paths of a name are the four paths of its normalized name
PathsFollowNormalizedName ==
    /\ \A n \in KnownNames :
           /\ IsNormalized(n, safe_name(n))
           /\ ArtifactPaths(n) = PathsOfNormalized(safe_name(n))
    /\ \A e \in NormalizedInPython :
           /\ safe_name(e.name) = e.normalized
           /\ ArtifactPaths(e.name) = PathsOfNormalized(e.normalized)

\* a handler that works on one name creates no file outside the four paths of that name, and
\* the generation for the whole registry none outside the paths of the registered names
NoOtherFiles ==
    /\ last'.name # <<>>
          => DOMAIN files' \subseteq DOMAIN files \cup PathsOfNormalized(safe_name(last'.name))
    /\ last'.name = <<>>
          => DOMAIN files' \subseteq
                 DOMAIN files \cup UNION { PathsOfNormalized(safe_name(saved_apps[i]["name"])) :
                                               i \in 1..Len(saved_apps) }

\* C11: the four paths of a name are those of its normalized name (lower-cased, spaces and
\* hyphens replaced by underscores, all else kept), so that every handler working on a name
\* writes only to those four paths and regenerating never adds a file.
C11_PathsFromNormalizedName == [](PathsFollowNormalizedName) /\ [][NoOtherFiles]_vars

\* C11: a name was saved, its desktop entry generated and the name saved again, and exactly
\* its four files exist
C11_Witness == /\ last.op = "save" /\ last.out = "overwritten"
               /\ DOMAIN files = ArtifactPaths(last.name)
               /\ Cardinality(DOMAIN files) = 4

\* the generation for a descriptor as the handlers run it: the scripts, then the desktop
\* entry with its icon; the files and the descriptor afterwards
Generation(fs, app_config) ==
    LET a == create_activation_script(fs, app_config, TRUE)
        l == create_xterm_launcher(a.fs, app_config, a.path, TRUE)
    IN  create_desktop_file(l.fs, with_scripts(app_config, a.path, l.path),
                            DefaultOptions, AllOk)

\* generating a second time leaves every file as the first generation wrote it
SecondGenerationSame(fs, app_config) ==
    LET once  == Generation(fs, app_config)
        twice == Generation(once.fs, once.app)
    IN  /\ twice.fs = once.fs
        /\ once.fs[activation_script_path(app_config["name"])]
               = activation_script_content(app_config)

\* two builds of the desktop entry in a row for one name: the second changes no file
BuildTwiceInARow ==
    (/\ last.op = "generate_desktop" /\ last.out = "created"
     /\ last'.op = "generate_desktop" /\ last'.out = "created"
     /\ last'.name = last.name)
        => files' = files

\* C12: generating the scripts and the desktop entry of an unchanged descriptor a second time
\* gives the same file contents as the first time, whatever the files held before: every
\* write replaces the whole file.
C12_GenerationIdempotent ==
    /\ [](\A i \in 1..Len(saved_apps) : SecondGenerationSame(files, saved_apps[i]))
    /\ [][BuildTwiceInARow]_vars

\* C12: a desktop entry was built for a descriptor whose four files were on disk already
C12_Witness == /\ last.op = "generate_desktop" /\ last.out = "created"
               /\ clock = 4
               /\ ArtifactPaths(last.name) \subseteq DOMAIN files
               /\ \E i \in Named(saved_apps, last.name) :
                      /\ saved_apps[i]["created"] = 1
                      /\ "launcher_script" \in DOMAIN saved_apps[i]

\* C13: once create_desktop_file has completed for a descriptor, the descriptor's activation
\* script and its launcher script both exist on disk.
C13_BuildEnsuresScripts ==
    (last.op = "generate_desktop" /\ last.out = "created")
        => /\ path_exists(files, activation_script_path(last.name))
           /\ path_exists(files, launcher_script_path(last.name))

\* the Exec line of a desktop entry
ExecLine(entry) == entry[5]

\* C14: the Exec line of the desktop entry that create_desktop_file has written for a
\* descriptor runs the descriptor's launcher script (launch_<normalized name>.sh) through an
\* interactive shell, whether or not the launcher path was recorded on the descriptor.
C14_ExecRunsLauncher ==
    (last.op = "generate_desktop" /\ last.out = "created")
        => ExecLine(files[desktop_file_path(last.name)])
               = Lit("Exec=bash -i '") \o launcher_script_path(last.name) \o Lit("'")

\* the Icon line of a desktop entry
IconLine(entry) == entry[6]

\* the icon reference by icon type: the generated icon's path when it was rendered, the
\* custom path when that file exists, the system icon's name when one is given, and the
\* default identifier in every other case
ExpectedIcon(fs, app_name, opts, render_ok) ==
    IF opts.icon_type = Lit("generate")
    THEN (IF render_ok THEN get_icon_path(app_name) ELSE Lit("application-x-python"))
    ELSE IF opts.icon_type = Lit("custom")
    THEN (IF path_exists(fs, opts.custom_icon) THEN opts.custom_icon
          ELSE Lit("application-x-python"))
    ELSE (IF opts.icon_name # <<>> THEN opts.icon_name ELSE Lit("application-x-python"))

\* C15: the desktop entry is written whatever the icon step does, and its Icon line holds the
\* generated icon's path when the icon was rendered and the default identifier when
\* rendering failed; the custom path as given when that file exists, else the default, and no
\* file is created at the custom path; the system icon's name as given when it is not empty,
\* else the default.
C15_IconResolved ==
    [][\A k \in 1..Len(saved_apps), opts \in Options, io \in IconFaults :
          (last'.op = "generate_desktop"
             /\ generate_selected_desktop_file(
                    existing_index(saved_apps, saved_apps[k]["name"]), opts, io))
              => LET app_name == saved_apps[k]["name"]
                     entry    == desktop_file_path(app_name)
                 IN  /\ last'.out = "created"
                     /\ entry \in DOMAIN files'
                     /\ IconLine(files'[entry])
                            = Lit("Icon=") \o ExpectedIcon(files, app_name, opts, io.render_ok)
                     /\ opts.icon_type = Lit("generate") /\ io.render_ok
                            => get_icon_path(app_name) \in DOMAIN files'
                     /\ opts.icon_type # Lit("generate")
                            => DOMAIN files' \subseteq
                                   DOMAIN files \cup {entry, activation_script_path(app_name)}]_vars

\* C15: a desktop entry was written with the default icon, no icon file having been rendered
C15_Witness ==
    /\ last.op = "generate_desktop" /\ last.out = "created"
    /\ IconLine(files[desktop_file_path(last.name)])
           = Lit("Icon=") \o Lit("application-x-python")
    /\ get_icon_path(last.name) \notin DOMAIN files

\* the value under key k of descriptor d, <<>> when the key is absent
Recorded(d, k) == IF k \in DOMAIN d THEN <<d[k]>> ELSE <<>>

\* C16: create_desktop_file returns the entry's path and records it under desktop_file
\* exactly when the entry was written and marked executable; when open(), the write or the
\* chmod fails the handler ends normally with no path (reported as failed) and desktop_file is
\* what it was before, absent or the earlier path. (Stated for builds in which writing the
\* activation script, where the build writes one, does not fail.)
C16_PathRecordedIffWritten ==
    [][\A k \in 1..Len(saved_apps), io \in BuildFaults :
          LET i   == existing_index(saved_apps, saved_apps[k]["name"])
              app == saved_apps[i]
              r   == create_desktop_file(files, app, DefaultOptions, io)
          IN  (last'.op = "generate_desktop"
                 /\ last'.name = app["name"]
                 /\ (io.act_w \/ "launcher_script" \in DOMAIN app)
                 /\ generate_selected_desktop_file(i, DefaultOptions, io))
                  => IF io.desk_w /\ io.desk_write_ok /\ io.chmod_ok
                     THEN /\ last'.out = "created"
                          /\ r.path = desktop_file_path(app["name"])
                          /\ saved_apps'[i]["desktop_file"] = r.path
                          /\ r.path \in DOMAIN files'
                     ELSE /\ last'.out = "failed"
                          /\ r.path = <<>>
                          /\ Recorded(saved_apps'[i], "desktop_file")
                                 = Recorded(app, "desktop_file")]_vars

\* C16: writing the entry failed for a descriptor that had an entry recorded before, and the
\* recorded path is still there
C16_Witness ==
    /\ last.op = "generate_desktop" /\ last.out = "failed"
    /\ \E i \in Named(saved_apps, last.name) :
           /\ "desktop_file" \in DOMAIN saved_apps[i]
           /\ saved_apps[i]["desktop_file"] = desktop_file_path(last.name)

\* a save during which writing the activation script fails still writes the launcher script
LauncherWrittenAnyway ==
    \A f \in FaultForms, overwrite \in BOOLEAN, run \in BOOLEAN :
        (last'.op = "save" /\ last'.out = "raised"
           /\ save_and_create_script(f, overwrite, run, Fails("act_w")))
            => launcher_script_path(strip(f.name)) \in DOMAIN files'

\* a generation for the whole registry writes the entry of every descriptor whose own build
\* meets no failure, whatever happens to the builds of the others
OtherAppsGenerated ==
    \A ios \in [1..Len(saved_apps) -> GenerateAllFaults] :
        (last'.op = "generate_all"
           /\ generate_and_refresh_desktop(DefaultOptions, ios, TRUE))
            => \A k \in 1..Len(saved_apps) :
                   ios[k] = AllOk
                       => desktop_file_path(saved_apps[k]["name"]) \in DOMAIN files'

\* C17: a write failure of one artifact stops neither the artifacts that follow (the launcher
\* script after a failed activation script) nor the generation for the other apps of a
\* generate-all, and the files written before stay as they are.
C17_FailuresIsolated ==
    [][/\ LauncherWrittenAnyway
       /\ OtherAppsGenerated
       /\ (last'.op \in {"save", "generate_all"} /\ last'.out = "raised")
              => \A p \in DOMAIN files : p \in DOMAIN files' /\ files'[p] = files[p]]_vars

\* C18: removing a descriptor deletes nothing but its activation script and its launcher
\* script: the descriptor's desktop entry, and every other file, stays on disk as it was.
C18_RemoveKeepsDesktopEntry ==
    [][(last'.op = "delete" /\ last'.out = "deleted")
          => \A p \in DOMAIN files :
                 p \notin { activation_script_path(last'.name), launcher_script_path(last'.name) }
                     => p \in DOMAIN files' /\ files'[p] = files[p]]_vars

\* C18: a descriptor with a desktop entry was removed: its scripts are gone, its entry is not
C18_Witness ==
    /\ last.op = "delete" /\ last.out = "deleted"
    /\ Named(saved_apps, last.name) = {}
    /\ desktop_file_path(last.name) \in DOMAIN files
    /\ activation_script_path(last.name) \notin DOMAIN files
    /\ launcher_script_path(last.name) \notin DOMAIN files

\* C19: deleting the desktop entry of a descriptor removes the entry's file, drops
\* desktop_file from the descriptor and writes the registry to apps.json; the descriptor
\* keeps its place and every other field, every other descriptor is as it was, and no other
\* file changes.
C19_DeleteDesktopEntryFrame ==
    [][(clock' # clock /\ last'.op = "delete_desktop" /\ last'.out = "deleted")
          => LET i     == existing_index(saved_apps, last'.name)
                 entry == saved_apps[i]["desktop_file"]
             IN  /\ entry \notin DOMAIN files'
                 /\ \A p \in DOMAIN files \ {entry} :
                        p \in DOMAIN files' /\ files'[p] = files[p]
                 /\ Len(saved_apps') = Len(saved_apps)
                 /\ DOMAIN saved_apps'[i] = DOMAIN saved_apps[i] \ {"desktop_file"}
                 /\ \A x \in DOMAIN saved_apps'[i] : saved_apps'[i][x] = saved_apps[i][x]
                 /\ \A j \in 1..Len(saved_apps) : j # i => saved_apps'[j] = saved_apps[j]
                 /\ apps_file' = [kind |-> "array", items |-> saved_apps']]_vars

\* C19: the entry of one of two descriptors was deleted; the other descriptor still records
\* its own entry, which is on disk
C19_Witness ==
    /\ last.op = "delete_desktop" /\ last.out = "deleted"
    /\ Len(saved_apps) = 2
    /\ desktop_file_path(last.name) \notin DOMAIN files
    /\ \E i, j \in 1..2 :
           /\ saved_apps[i]["name"] = last.name
           /\ "desktop_file" \notin DOMAIN saved_apps[i]
           /\ j # i
           /\ "desktop_file" \in DOMAIN saved_apps[j]
           /\ saved_apps[j]["desktop_file"] \in DOMAIN files

\* the directory a descriptor runs in: its workdir, or the parent directory of its script when
\* no workdir was given
WorkDirOrParent(app) ==
    IF Get(app, "workdir", <<>>) = <<>> THEN dirname(app["script"]) ELSE app["workdir"]

\* C20: the activation script a save has generated changes into the descriptor's working
\* directory, which is the parent directory of the script when the descriptor has none
\* (absent or empty), and the Path line of a desktop entry that was built names the same
\* directory.
C20_WorkdirDefaultsToScriptDir ==
    /\ (SaveTookEffect(last) /\ last.out # "raised")
          => \A i \in Named(saved_apps, last.name) :
                 files[activation_script_path(last.name)][6]
                     = Lit("cd \"") \o WorkDirOrParent(saved_apps[i]) \o Lit("\"")
    /\ (last.op = "generate_desktop" /\ last.out = "created")
          => \A i \in Named(saved_apps, last.name) :
                 files[desktop_file_path(last.name)][11]
                     = Lit("Path=") \o WorkDirOrParent(saved_apps[i])

\* the lines of an activation script that do nothing but tell the user what happens: empty
\* lines, comments and status messages
InertLines(app) ==
    { <<>>, Lit("#!/bin/bash"), Lit("# Change to working directory"),
      Lit("# Activate virtual environment"), Lit("# Run the Python script"),
      Lit("# Keep terminal open"), Lit("echo \"\""),
      Lit("echo \"Activating virtual environment...\""),
      Lit("echo \"Running script: ") \o basename(app["script"]) \o Lit("\""),
      Lit("echo \"Script execution complete.\"") }

\* the five steps of the activation script of descriptor app, in order
ScriptSteps(app) ==
    << Lit("echo \"Running ") \o app["name"] \o Lit("...\""),
       Lit("cd \"") \o app["workdir"] \o Lit("\""),
       Lit("source \"") \o app["venv"]
           \o <<"/","b","i","n","/","a","c","t","i","v","a","t","e">> \o Lit("\""),
       Lit("python3 \"") \o app["script"] \o Lit("\" ") \o app["args"],
       Lit("read -p \"Press Enter to exit...\"") >>

\* the lines of script that act, in the order they stand in: what is left without the inert
\* lines
StepsOf(script, app) == SelectSeq(script, LAMBDA line : line \notin InertLines(app))

\* the handler that ran last wrote the activation script of the descriptor it worked on
WroteActivationScript(l) ==
    \/ l.op = "save" /\ l.out \in {"appended", "overwritten"}
    \/ l.op = "run_selected" /\ l.out = "regenerated"

\* C21: the activation script that a save or a launch of a registered app has written for a
\* descriptor consists of these steps in this order: announce the app name, cd into the working
\* directory, source "<venv>/bin/activate", run python3 "<script>" followed by the arguments as
\* they are, prompt and wait; every other line is empty, a comment or a status message.
C21_ActivationScriptSteps ==
    WroteActivationScript(last)
        => \A i \in Named(saved_apps, last.name) :
               StepsOf(files[saved_apps[i]["activation_script"]], saved_apps[i])
                   = ScriptSteps(saved_apps[i])

\* C21: a save has written the activation script of a descriptor with arguments and a working
\* directory
C21_Witness ==
    /\ last.op = "save" /\ last.out = "appended"
    /\ \E i \in Named(saved_apps, last.name) :
           /\ saved_apps[i]["args"] = <<"-","x">>
           /\ saved_apps[i]["workdir"] = <<"/","w">>
           /\ files[saved_apps[i]["activation_script"]][14]
                  = Lit("python3 \"") \o ExistingScript \o Lit("\" ") \o <<"-","x">>

\* the Popen calls of a launch that start program
Attempts(t, program) == { k \in 1..Len(t.spawns) : t.spawns[k].program = program }

\* what run_script_file did on a script that existed or not: no exception leaves it, no child
\* is waited for and each is in a session of its own; nothing is started for a missing script,
\* which is logged; xterm is tried once and first; bash is tried exactly once when spawning
\* xterm failed and not at all otherwise; a failure is logged
LaunchIsSafe(t, existed) ==
    /\ ~t.raised
    /\ \A k \in 1..Len(t.spawns) : ~t.spawns[k].waited /\ t.spawns[k].new_session
    /\ ~existed => t.spawns = <<>> /\ t.log = <<"error">>
    /\ existed => /\ Attempts(t, "xterm") = {1}
                  /\ Attempts(t, "bash") = IF t.spawns[1].ok THEN {} ELSE {2}
                  /\ Len(t.spawns) = Cardinality(Attempts(t, "xterm") \cup Attempts(t, "bash"))
                  /\ \A k \in 1..Len(t.spawns) :
                         t.log[k] = IF t.spawns[k].ok THEN "success" ELSE "error"

\* C22: launching a script never blocks and never raises to its caller. The terminal is
\* started as a child in a session of its own that is not waited for; when the script file
\* does not exist nothing is started and an error is logged; when spawning the terminal fails
\* the script is run directly, once, and a failure of that run is only logged. No handler that
\* launches (save, run now, run selected) ends with an exception when the terminal or the
\* direct run cannot be started.
C22_LaunchNeverRaises ==
    /\ last.op = "run_script_file"
           => LaunchIsSafe(last.steps, path_exists(files, last.name))
    /\ last.op \in {"save", "run_now", "run_selected"} => last.out # "raised"

\* C22: xterm and the direct run both failed to start on a script that is on disk, and
\* the call returned
C22_Witness ==
    /\ last.op = "run_script_file" /\ last.out = "returned"
    /\ last.name \in DOMAIN files
    /\ Len(last.steps.spawns) = 2
    /\ ~last.steps.spawns[2].ok

\* the positions of text that hold a character other than whitespace
Inked(text) == { k \in 1..Len(text) : text[k] \notin Whitespace }

\* the smallest position of a non-empty set of positions
First(positions) == CHOOSE k \in positions : \A m \in positions : k <= m

\* the initials as the design states them. The first word starts at the first character that
\* is not whitespace and ends before the next whitespace; the second word starts at the first
\* character after that which is not whitespace.
InitialsOf(text) ==
    IF Inked(text) = {} THEN <<"?">>
    ELSE LET b == First(Inked(text))
             gaps == { k \in (b+1)..Len(text) : text[k] \in Whitespace }
             e == IF gaps = {} THEN Len(text) ELSE First(gaps) - 1
             rest == { k \in Inked(text) : k > e }
         IN  IF rest = {}
             THEN (IF e = b THEN upper_char(text[b])
                   ELSE upper_char(text[b]) \o upper_char(text[b+1]))
             ELSE upper_char(text[b]) \o upper_char(text[First(rest)])

\* what IconGenerator.get_initials of the source returns for texts with whitespace other than
\* the space, and for texts with letters other than a to z
InitialsInPython ==
    { [text |-> <<"a","\r","b">>,                       initials |-> <<"A","B">>],
      [text |-> <<"\r">>,                               initials |-> <<"?">>],
      [text |-> <<"a","U+000B","B">>,                    initials |-> <<"A","B">>],
      [text |-> <<"U+00A0">>,                            initials |-> <<"?">>],
      [text |-> <<"U+001C","a","U+001F","b"," ","c">>,   initials |-> <<"A","B">>],
      [text |-> <<"\f","B","U+0085","a">>,               initials |-> <<"B","A">>],
      [text |-> <<"a","U+2003","b">>,                    initials |-> <<"A","B">>],
      [text |-> <<"a","b","U+3000">>,                    initials |-> <<"A","B">>],
      [text |-> <<"a","\t","B">>,                        initials |-> <<"A","B">>],
      [text |-> <<"\n","B","a","\n">>,                   initials |-> <<"B","A">>],
      [text |-> <<"U+00DF","a">>,                        initials |-> <<"S","S","A">>],
      [text |-> <<"U+00E9">>,                            initials |-> <<"U+00C9">>],
      [text |-> <<"U+00E9","a">>,                        initials |-> <<"U+00C9","A">>],
      [text |-> <<"U+00B5"," ","b">>,                    initials |-> <<"U+039C","B">>],
      [text |-> <<"U+01C6">>,                            initials |-> <<"U+01C4">>],
      [text |-> <<"U+FB01","x">>,                        initials |-> <<"F","I","X">>],
      [text |-> <<"a"," ","U+00DF">>,                    initials |-> <<"A","S","S">>],
      [text |-> <<"U+0149">>,                            initials |-> <<"U+02BC","N">>],
      [text |-> <<"U+00C9","A"," ","b">>,                initials |-> <<"U+00C9","B">>] }

\* C23: get_initials(text) splits the trimmed text on runs of whitespace and returns "?" when
\* there is no word, the first two characters of the word in upper case when there is one
\* word (one character when the word has one), and the first characters of the first and of
\* the second word in upper case when there are two or more. The upper case of a character
\* is what str.upper() gives, two characters for some (SS for U+00DF).
C23_Initials ==
    /\ last.op = "get_initials" => last.result = InitialsOf(last.name)
    /\ \A e \in InitialsInPython :
           (last.op = "get_initials" /\ last.name = e.text) => last.result = e.initials

\* C23: the initials of a text of three words, after a separator and with a separator and a
\* space between them, were taken
C23_Witness ==
    /\ last.op = "get_initials"
    /\ last.name = <<"U+001C","a","U+001F","b"," ","c">>
    /\ last.result = <<"A","B">>

\* a text of exactly six hex digits
SixHexDigits(t) == Len(t) = 6 /\ \A k \in 1..6 : IsHexDigit(t[k])

\* a color text as the design accepts it: six hex digits, after one '#' or after none
WellFormedColor(t) ==
    \/ SixHexDigits(t)
    \/ t # <<>> /\ Head(t) = "#" /\ SixHexDigits(Tail(t))

\* C24: hex_to_rgb succeeds on exactly the texts that consist of six hex digits after one
\* optional leading '#', and fails on every other text: one with fewer or more digits, with
\* more than one '#', or with a character that is no hex digit.
C24_HexToRgbExactlySixDigits ==
    last.op = "hex_to_rgb" => (last.result.ok <=> WellFormedColor(last.name))

\* the lower-case hex digits
LowerHexDigits == { HexDigits[v] : v \in 1..16 }

\* C25: for a color with every channel in 0..255, rgb_to_hex gives '#' followed by exactly six
\* lower-case hex digits, each channel padded with a zero to two digits, and hex_to_rgb of
\* that text gives the color back.
C25_RgbHexRoundTrip ==
    last.op = "rgb_to_hex"
        => /\ Len(last.result) = 7
           /\ last.result[1] = "#"
           /\ \A k \in 2..7 : last.result[k] \in LowerHexDigits
           /\ \A k \in 1..3 :
                  16 * HexValue(last.result[2 * k]) + HexValue(last.result[2 * k + 1])
                      = last.name[k]
           /\ hex_to_rgb(last.result) = [ok |-> TRUE, rgb |-> last.name]

\* C25: a color with a channel below 16 and a channel with letters for digits was formatted
C25_Witness ==
    /\ last.op = "rgb_to_hex"
    /\ last.name = <<0, 10, 255>>
    /\ last.result = <<"#","0","0","0","a","f","f">>

\* the channels of rgb at the value w / (255 * d), each rounded to the nearest integer
ShadeRounded(rgb, w, d) ==
    LET m == Max3(rgb)
        ch(k) == IF m = 0 THEN (2 * w + d) \div (2 * d)
                 ELSE (2 * rgb[k] * w + m * d) \div (2 * m * d)
    IN  <<ch(1), ch(2), ch(3)>>

\* the value channel of rgb moved by factor and clamped, times 255 * d: V = Max3 / 255
ClampedValue(rgb, factor, sign) ==
    LET w == Max3(rgb) * factor.d + sign * 255 * factor.n
    IN  IF w < 0 THEN 0 ELSE IF w > 255 * factor.d THEN 255 * factor.d ELSE w

\* C26: lighten_color(c, f) and darken_color(c, f) keep hue and saturation, move the value V
\* to clamp(V + f, 0, 1) and clamp(V - f, 0, 1), and return every channel of that color
\* rounded to the nearest integer in 0..255.
C26_ShadesRounded ==
    /\ last.op = "lighten_color"
           => last.result = ShadeRounded(last.name.rgb,
                                         ClampedValue(last.name.rgb, last.name.factor, 1),
                                         last.name.factor.d)
    /\ last.op = "darken_color"
           => last.result = ShadeRounded(last.name.rgb,
                                         ClampedValue(last.name.rgb, last.name.factor, 0 - 1),
                                         last.name.factor.d)

\* the launcher script of a descriptor is recorded and on disk
LauncherAtHand(fs, app) ==
    "launcher_script" \in DOMAIN app /\ path_exists(fs, app["launcher_script"])

\* what run_selected_app has done to descriptor i, whose launcher script was at hand or not:
\* with the launcher at hand no file is written and the recorded launcher is started; without
\* it both scripts are on disk afterwards with the content the descriptor gives, both paths
\* are recorded, the registry file holds the registry with them, and the launcher that was
\* started is the new one
RanSelected(i) ==
    LET app == saved_apps[i]
        now == saved_apps'[i]
    IN  IF LauncherAtHand(files, app)
        THEN /\ files' = files
             /\ \A key \in {"activation_script", "launcher_script"} \cap DOMAIN app :
                    key \in DOMAIN now /\ now[key] = app[key]
             /\ last'.out = "ran"
             /\ last'.how = run_script_file(files, app["launcher_script"], TRUE, TRUE)
             /\ Started(last'.how)
        ELSE /\ last'.out = "regenerated"
             /\ {"activation_script", "launcher_script"} \subseteq DOMAIN now
             /\ now["activation_script"] = activation_script_path(app["name"])
             /\ now["launcher_script"] = launcher_script_path(app["name"])
             /\ files'[now["activation_script"]] = activation_script_content(now)
             /\ files'[now["launcher_script"]]
                    = launcher_script_content(now, now["activation_script"])
             /\ apps_file' = json_dump(saved_apps')
             /\ last'.how = run_script_file(files', now["launcher_script"], TRUE, TRUE)
             /\ Started(last'.how)

\* C27: run_selected_app on a registered app whose launcher script is not recorded or is not
\* on disk writes the activation and the launcher script again, records both paths on the
\* descriptor, writes the registry file and then starts the launcher; when the recorded
\* launcher is on disk it is started and no script file is written.
C27_RunSelectedRegenerates ==
    [][\A i \in 1..Len(saved_apps) :
          (clock' # clock /\ last'.op = "run_selected" /\ last'.name = saved_apps[i]["name"])
              => RanSelected(i)]_vars

\* C27: an app whose launcher script was recorded but no longer on disk (the removal of an
\* app with the same normalized name had deleted it) was launched, and its scripts written
C27_Witness ==
    /\ last.op = "run_selected" /\ last.out = "regenerated"
    /\ last.launcher = "missing"
    /\ Started(last.how)
    /\ \E i \in Named(saved_apps, last.name) :
           /\ saved_apps[i]["launcher_script"] \in DOMAIN files
           /\ saved_apps[i]["activation_script"] \in DOMAIN files
           /\ saved_apps[i]["last_run"] = clock - 1
           /\ apps_file = json_dump(saved_apps)

\* the handler that ran last is a registry operation that ran to its end
CompletedRegistryOperation(l) ==
    \/ l.op = "save" /\ l.out \in {"appended", "overwritten"}
    \/ l.op = "run_selected" /\ l.out \in {"ran", "regenerated"}
    \/ l.op = "delete" /\ l.out = "deleted"
    \/ l.op = "generate_desktop" /\ l.out = "created"
    \/ l.op = "generate_all" /\ l.out = "generated"
    \/ l.op = "delete_desktop" /\ l.out = "deleted"

\* C28: after every completed registry operation (save, run selected, delete, generate one or
\* all desktop entries, delete a desktop entry) the registry file equals the registry in
\* memory field for field, the activation_script and launcher_script paths included, so that
\* loading the file gives the registry in memory.
C28_FileEqualsMemory ==
    CompletedRegistryOperation(last)
        => /\ apps_file = json_dump(saved_apps)
           /\ load_apps(apps_file) = saved_apps

\* the script files a descriptor refers to
ScriptsOf(app) == { app[key] : key \in {"activation_script", "launcher_script"} \cap DOMAIN app }

\* C29: removing a descriptor deletes no file that the activation_script or launcher_script of
\* a descriptor that stays in the registry refers to, whatever the two names are (names that
\* differ only in case, spaces or hyphens included).
C29_RemoveSparesOtherApps ==
    [][(clock' # clock /\ last'.op = "delete")
          => \A j \in 1..Len(saved_apps') :
                 \A path \in ScriptsOf(saved_apps'[j]) :
                     path \in DOMAIN files => path \in DOMAIN files']_vars

\* the Name line of a desktop entry
NameLine(entry) == entry[3]

\* the desktop entry that was created for descriptor app is on disk
EntryOnDisk(fs, app) ==
    /\ desktop_file_path(app["name"]) \in DOMAIN fs
    /\ Len(fs[desktop_file_path(app["name"])]) >= 3
    /\ NameLine(fs[desktop_file_path(app["name"])]) = Lit("Name=") \o app["name"]

\* C30: whenever the desktop entry created for a registered name is on disk, the descriptor's
\* desktop_file names that file, so that delete_desktop_file can remove it; a save that
\* overwrites the descriptor does not lose the reference.
C30_EntryOnDiskIsRecorded ==
    \A i \in 1..Len(saved_apps) :
        EntryOnDisk(files, saved_apps[i])
            => /\ "desktop_file" \in DOMAIN saved_apps[i]
               /\ saved_apps[i]["desktop_file"] = desktop_file_path(saved_apps[i]["name"])
====
